---- MODULE Spec2Model ----
(***************************************************************************)
(* Model of the polytaxes FIFO tax calculator (src/src/calculator.ts).     *)
(*                                                                         *)
(* One behaviour of the model is one call of generateTaxReport: the input  *)
(* is drawn in Init, and each action is one step of the function body.     *)
(* Spec draws its inputs from MainUniverse and DustUniverse; SpecEdge runs *)
(* the same actions on the inputs of EdgeUniverse (ties on the timestamp,  *)
(* malformed records, redemptions, zero quantities).                       *)
(*                                                                         *)
(* Numbers.  JavaScript numbers are modelled by exact arithmetic:          *)
(*   - a token quantity is an integer number of units, UnitsPerToken units *)
(*     to the token, so that the 0.0001 epsilon of the matcher is Epsilon  *)
(*     units and quantities below the epsilon exist;                       *)
(*   - a money amount is a fraction [n, d] of cents before rounding and an *)
(*     integer number of cents after round();                              *)
(*   - a fraction with d = 0 is a non-finite number: NaN when n = 0,       *)
(*     +Infinity when n = 1 and -Infinity when n = -1.  An entry names its *)
(*     amounts that are NaN in its field notANumber;                       *)
(*   - binary floating point error is not modelled.                        *)
(* Strings.  A string is a sequence of tokens; "-" is a token of its own   *)
(* and no other token holds a '-', so that split('-') and join('-') are    *)
(* operations on the sequence.  Titles are sequences of characters.        *)
(* Dates.  Date arithmetic is done in UTC.                                 *)
(***************************************************************************)
EXTENDS Integers, Sequences, FiniteSets, TLC

VARIABLES
    trades,         \* the array passed to generateTaxReport
    taxYear,        \* the tax year passed to generateTaxReport
    pc,             \* position in generateTaxReport
    normalized,     \* calculator.ts:25-26
    idx,            \* index of the next trade of the for loop (1-based)
    inventory,      \* Map<string, InventoryLot[]>, in insertion order
    entries,        \* Form8949Entry[]
    warnings,       \* string[]
    matchLog,       \* history: for entries[i], what produced it
    openPositions,  \* OpenPosition[]
    marketMap,      \* what fetchMarketsBatch returned
    lookups,        \* the condition ids fetchMarket was called with, in order
    report,         \* the returned TaxReport
    given,          \* history: the array as the caller passed it
    calls,          \* the number of calls of generateTaxReport so far
    previous,       \* history: the keys of the lots the call before left open
    other,          \* a call made while this one awaits the resolver, Null when none
    mergedPdf,      \* what generateDetailedMode of main.ts returned, Null before
    pdfDoc,         \* what generateDetailedMode of pdf.ts returned, Null before
    unique,         \* fetchMarketsBatch: the distinct ids, in order
    batchAt,        \* fetchMarketsBatch: i, the start of the batch (0-based)
    inFlight,       \* the ids whose fetchMarket has not settled yet
    results,        \* what the settled fetchMarket calls of the batch returned
    building,       \* fetchMarketsBatch: its local marketMap
    answered,       \* history: what each fetchMarket call returned
    fetchPc,        \* position in fetchMarketsBatch
    conditionIds,   \* the array fetchMarketsBatch was called with
    offset,         \* fetchTradingHistory: the offset of the next page
    allTrades,      \* fetchTradingHistory: the records kept so far
    requested,      \* history: the offsets requested, in order
    historyPc,      \* position in fetchTradingHistory
    currentReport,  \* main.ts: the module's currentReport
    submits,        \* the calls of handleSubmit that have not returned
    downloads       \* history: the reports handleDownload generated files of

vars == <<trades, taxYear, pc, normalized, idx, inventory, entries, warnings,
          matchLog, openPositions, marketMap, lookups, report, given, calls,
          previous, other, mergedPdf, pdfDoc, unique, batchAt, inFlight, results,
          building, answered, fetchPc, conditionIds, offset, allTrades, requested, historyPc,
          currentReport, submits, downloads>>

\* the variables of generateTaxReport and of generateForm8949
reportVars == <<trades, taxYear, pc, normalized, idx, inventory, entries, warnings,
                matchLog, openPositions, marketMap, lookups, report, given, calls,
                previous, other, mergedPdf, pdfDoc>>

\* the variables of fetchMarketsBatch
batchVars == <<unique, batchAt, inFlight, results, building, answered, fetchPc,
               conditionIds>>

\* the variables of fetchTradingHistory
historyVars == <<offset, allTrades, requested, historyPc>>

\* the variables of the page
uiVars == <<currentReport, submits, downloads>>

-----------------------------------------------------------------------------
(* Bounds of the model *)

MaxTrades == 3
MaxDustTrades == 4
MaxEdgeTrades == 3
MaxOddTrades == 2
MaxTwiceTrades == 2
MaxOtherTrades == 1
MaxCalls == 2
MaxPartEntries == 29
MaxLaterTrades == 3
MaxBatchIds == 7
MaxRedeemTrades == 3

MaxHistoryTrades == 2

MaxSubmits == 2
MaxDownloads == 1
MaxUiTrades == 1

-----------------------------------------------------------------------------
(* Numbers *)

UnitsPerToken == 3 * 10000
Epsilon == UnitsPerToken \div 10000
LONG_TERM_DAYS == 365
SecondsPerDay == 86400
TitleMaxLen == 55

Min(a, b) == IF a < b THEN a ELSE b

Abs(a) == IF a < 0 THEN -a ELSE a

RECURSIVE GCD(_, _)
GCD(a, b) == IF b = 0 THEN Abs(a) ELSE GCD(b, a % b)

Sign(a) == IF a < 0 THEN -1 ELSE IF a = 0 THEN 0 ELSE 1

\* the fraction n/d (d > 0) in lowest terms
Frac(n, d) == LET g == GCD(Abs(n), d) IN [n |-> n \div g, d |-> d \div g]

NaN == [n |-> 0, d |-> 0]

IsFinite(f) == f.d # 0

\* q * f for an integer q and a fraction f; 0 * Infinity is NaN
MulF(q, f) ==
    IF IsFinite(f)
    THEN LET g == GCD(Abs(q), f.d) IN Frac((q \div g) * f.n, f.d \div g)
    ELSE [n |-> Sign(q) * f.n, d |-> 0]

\* f / q for a fraction f and an integer q >= 0; x / 0 is +Infinity, NaN or
\* -Infinity as x is positive, zero or negative
DivF(f, q) ==
    IF IsFinite(f) /\ q # 0
    THEN LET g == GCD(Abs(f.n), q) IN Frac(f.n \div g, f.d * (q \div g))
    ELSE [n |-> Sign(f.n), d |-> 0]

\* a + b; NaN when either is NaN or the two are opposite infinities
AddF(a, b) ==
    IF IsFinite(a) /\ IsFinite(b)
    THEN LET g == GCD(a.d, b.d)
         IN Frac(a.n * (b.d \div g) + b.n * (a.d \div g), (a.d \div g) * b.d)
    ELSE IF ~IsFinite(a) /\ ~IsFinite(b)
    THEN (IF a.n = b.n THEN a ELSE NaN)
    ELSE IF IsFinite(a) THEN b ELSE a

SubF(a, b) == AddF(a, [n |-> -b.n, d |-> b.d])

Cents(c) == [n |-> c, d |-> 1]

\* a variant that drops the fraction (Math.floor)
MathFloor(f) == f.n \div f.d

\* Math.round(x): the nearest integer, a half rounded towards +infinity
MathRound(f) == (2 * f.n + f.d) \div (2 * f.d)

\* round(num): num is a fraction of cents; the result is in cents.  round(NaN)
\* is NaN: the entry names the amount in notANumber and holds for it the 0 that
\* sumBy's `item[key] || 0` reads
Round(f) == IF IsFinite(f) THEN MathRound(f) ELSE 0

\* the names of the amounts that are not finite
NotANumber(amounts) == {k \in DOMAIN amounts : ~IsFinite(amounts[k])}

RECURSIVE SumBy(_, _)
SumBy(arr, key) ==
    IF Len(arr) = 0 THEN 0 ELSE SumBy(SubSeq(arr, 1, Len(arr) - 1), key) + arr[Len(arr)][key]

-----------------------------------------------------------------------------
(* Strings and dates *)

Dash == "-"

UpperTok(t) ==
    CASE t = "Yes" -> "YES"
      [] t = "yes" -> "YES"
      [] t = "No"  -> "NO"
      [] t = "no"  -> "NO"
      [] OTHER     -> t

\* String.prototype.toUpperCase
ToUpperCase(s) == [i \in 1..Len(s) |-> UpperTok(s[i])]

\* `${conditionId}-${outcome}`
PositionKey(conditionId, outcome) == conditionId \o <<Dash>> \o outcome

\* key.split('-'): the index of the first '-' of the key, Len+1 when none
FirstDash(key) ==
    LET hits == {i \in 1..Len(key) : key[i] = Dash}
    IN IF hits = {} THEN Len(key) + 1 ELSE CHOOSE i \in hits : \A j \in hits : i <= j

\* const [conditionId, ...outcomeParts] = key.split('-')
SplitConditionId(key) == SubSeq(key, 1, FirstDash(key) - 1)

\* outcomeParts.join('-')
SplitOutcome(key) == SubSeq(key, FirstDash(key) + 1, Len(key))

\* str.lastIndexOf(' '), 0-based, -1 when none
LastIndexOfSpace(s) ==
    LET hits == {i \in 1..Len(s) : s[i] = " "}
    IN IF hits = {} THEN -1 ELSE (CHOOSE i \in hits : \A j \in hits : i >= j) - 1

RECURSIVE TrimStart(_)
TrimStart(s) == IF Len(s) > 0 /\ s[1] = " " THEN TrimStart(Tail(s)) ELSE s

RECURSIVE TrimEnd(_)
TrimEnd(s) ==
    IF Len(s) > 0 /\ s[Len(s)] = " " THEN TrimEnd(SubSeq(s, 1, Len(s) - 1)) ELSE s

Trim(s) == TrimEnd(TrimStart(s))

\* a variant that never looks for a space
TruncateHard(str, maxLen) ==
    IF Len(str) <= maxLen THEN str
    ELSE Trim(SubSeq(str, 1, maxLen - 3)) \o <<".", ".", ".">>

Truncate(str, maxLen) ==
    IF Len(str) <= maxLen THEN str
    ELSE LET lastSpace == LastIndexOfSpace(SubSeq(str, 1, maxLen - 3))
             cutPoint  == IF 2 * lastSpace > maxLen THEN lastSpace ELSE maxLen - 3
         IN Trim(SubSeq(str, 1, cutPoint)) \o <<".", ".", ".">>

\* `${outcome.toUpperCase()} token - ${truncate(title, 55)}`
Description(outcome, title) ==
    [outcome |-> ToUpperCase(outcome), title |-> Truncate(title, TitleMaxLen)]

\* days since 1970-01-01 of a civil date (proleptic Gregorian calendar)
DaysFromCivil(y, m, d) ==
    LET yy  == IF m <= 2 THEN y - 1 ELSE y
        era == yy \div 400
        yoe == yy - era * 400
        mp  == IF m > 2 THEN m - 3 ELSE m + 9
        doy == (153 * mp + 2) \div 5 + d - 1
        doe == yoe * 365 + yoe \div 4 - yoe \div 100 + doy
    IN era * 146097 + doe - 719468

\* new Date(taxYear, 11, 31, 23, 59, 59).getTime() / 1000
TaxYearEnd(year) == DaysFromCivil(year, 12, 31) * SecondsPerDay + 23 * 3600 + 59 * 60 + 59

\* formatDate(timestamp): <<month, day, year>> for MM/DD/YYYY
FormatDate(timestamp) ==
    LET z   == timestamp \div SecondsPerDay + 719468
        era == z \div 146097
        doe == z - era * 146097
        yoe == (doe - doe \div 1460 + doe \div 36524 - doe \div 146096) \div 365
        doy == doe - (365 * yoe + yoe \div 4 - yoe \div 100)
        mp  == (5 * doy + 2) \div 153
        d   == doy - (153 * mp + 2) \div 5 + 1
        m   == IF mp < 10 THEN mp + 3 ELSE mp - 9
        y   == yoe + era * 400 + (IF m <= 2 THEN 1 ELSE 0)
    IN <<m, d, y>>

HoldingDays(disposal, acquisition) == (disposal - acquisition) \div SecondsPerDay

\* a variant with a strict threshold
IsLongTermStrict(holdingDays) == holdingDays > LONG_TERM_DAYS

\* holdingDays >= LONG_TERM_DAYS
IsLongTerm(holdingDays) == holdingDays >= LONG_TERM_DAYS

-----------------------------------------------------------------------------
(* Inputs: the raw trade records and the resolver's answers *)

\* null (an absent value)
Null == [null |-> TRUE]

Market1 == <<"m1">>
Market2 == <<"m2">>
Yes == <<"Yes">>
No == <<"No">>

TitleOf(conditionId) ==
    IF conditionId = Market2 THEN <<"Q", " ", "2">> ELSE <<"Q", "1">>

\* 2024-01-01 00:00:00
T0 == DaysFromCivil(2024, 1, 1) * SecondsPerDay
Day == SecondsPerDay

Tok(n) == n * UnitsPerToken

\* a raw PolymarketTrade (types.ts:5-16); size in units, usdcSize a fraction of
\* cents, price in dollars per token, 0 standing for a zero or missing price
Raw(type, side, conditionId, outcome, size, usdcSize, price, timestamp) ==
    [timestamp |-> timestamp, type |-> type, side |-> side,
     conditionId |-> conditionId, outcome |-> outcome, size |-> size,
     usdcSize |-> usdcSize, price |-> price, transactionHash |-> 0,
     title |-> TitleOf(conditionId)]

NoPrice == Cents(0)

\* the notional of size units at centsPerToken cents a token
At(size, centsPerToken) == MulF(size, Frac(centsPerToken, UnitsPerToken))

MainUniverse ==
    { Raw("TRADE", "BUY", Market1, Yes, Tok(10), Cents(1000), NoPrice, T0),
      Raw("TRADE", "BUY", Market1, Yes, Tok(10), Cents(2000), Frac(2, 1), T0 + Day),
      Raw("TRADE", "SELL", Market1, Yes, Tok(12), Cents(3600), NoPrice, T0 + 365 * Day),
      Raw("TRADE", "SELL", Market1, Yes, Tok(5), Cents(250), NoPrice, T0 + 365 * Day - 1),
      Raw("TRADE", "BUY", Market1, No, Tok(4), Cents(1), NoPrice, T0 + Day - 1),
      Raw("TRADE", "SELL", Market1, No, Tok(2), Cents(1), NoPrice, T0 + 365 * Day - 1),
      Raw("TRADE", "BUY", Market2, Yes, Tok(3), Cents(199), NoPrice, T0),
      Raw("REDEEM", "", Market1, Yes, Tok(7), Cents(0), NoPrice, T0 + 365 * Day),
      Raw("TRADE", "BUY", <<>>, Yes, Tok(1), Cents(50), NoPrice, T0) }

\* quantities that differ by less than the epsilon
DustUniverse ==
    { Raw("TRADE", "BUY", Market2, Yes, Tok(1) + 2, At(Tok(1) + 2, 50), NoPrice, T0),
      Raw("TRADE", "SELL", Market2, Yes, Tok(1), At(Tok(1), 60), NoPrice, T0 + 365 * Day),
      Raw("TRADE", "SELL", Market2, Yes, Tok(1) + 5, At(Tok(1) + 5, 60), NoPrice,
          T0 + 365 * Day),
      Raw("TRADE", "SELL", Market2, Yes, Tok(1) + 6, At(Tok(1) + 6, 60), NoPrice,
          T0 + 365 * Day) }

\* records that tie on the timestamp, malformed records, redemptions that
\* carry a side, a notional and a price, zero quantities and a loss of 0.125
EdgeUniverse ==
    { Raw("TRADE", "BUY", Market1, Yes, Tok(10), Cents(1000), NoPrice, T0),
      Raw("TRADE", "BUY", Market1, Yes, Tok(10), Cents(2000), NoPrice, T0),
      Raw("TRADE", "SELL", Market1, Yes, Tok(5), Cents(250), NoPrice, T0),
      Raw("REDEEM", "BUY", Market1, Yes, Tok(7), Cents(300), Frac(1, 4), T0 + Day),
      Raw("REDEEM", "", Market1, <<>>, Tok(7), Cents(0), NoPrice, T0 + Day),
      Raw("TRADE", "SELL", <<>>, Yes, Tok(5), Cents(250), NoPrice, T0),
      Raw("TRADE", "BUY", Market1, Yes, 0, Cents(100), NoPrice, T0),
      Raw("TRADE", "SELL", Market1, Yes, 0, Cents(0), NoPrice, T0 + Day),
      Raw("TRADE", "BUY", Market1, No, Tok(8), Cents(100), NoPrice, T0),
      Raw("TRADE", "SELL", Market1, No, Tok(1), Cents(0), NoPrice, T0 + Day) }

\* a title of len characters with spaces at the given places (1-based)
Title(len, spaces) == [i \in 1..len |-> IF i \in spaces THEN " " ELSE "x"]

Titled(trade, title) == [trade EXCEPT !.title = title]

\* titles around the budget of TitleMaxLen characters
Titles ==
    { Title(TitleMaxLen, {}),
      Title(TitleMaxLen + 1, {}),
      Title(TitleMaxLen + 5, {41}),
      Title(TitleMaxLen + 5, {28}),
      Title(TitleMaxLen + 5, {29}),
      Title(TitleMaxLen + 5, {1}),
      Title(TitleMaxLen + 5, {41, 42}),
      Title(TitleMaxLen + 5, {TitleMaxLen - 2}) }

\* market identifiers and outcomes that hold a '-', a BUY of less than the
\* epsilon, a BUY with a price of its own, and SELLs with the titles of Titles
OddUniverse ==
    { Raw("TRADE", "BUY", <<"a", Dash, "b">>, <<"c">>, Tok(1), Cents(50), NoPrice, T0),
      Raw("TRADE", "BUY", <<"a">>, <<"b", Dash, "c">>, Tok(1), Cents(60), NoPrice, T0),
      Raw("TRADE", "SELL", <<"a">>, <<"b", Dash, "c">>, Tok(1), Cents(70), NoPrice,
          T0 + Day),
      Raw("TRADE", "BUY", Market2, Yes, Epsilon - 1, At(Epsilon - 1, 50), NoPrice, T0),
      Raw("TRADE", "BUY", Market1, Yes, Tok(2), Cents(100), Frac(11, 20), T0) }
    \cup { Titled(Raw("TRADE", "SELL", Market1, No, Tok(1), Cents(10), NoPrice, T0 + Day),
                  title) : title \in Titles }

\* the trades of calls that follow one another
TwiceUniverse ==
    { Raw("TRADE", "BUY", Market1, Yes, Tok(10), Cents(1000), NoPrice, T0),
      Raw("TRADE", "SELL", Market1, Yes, Tok(5), Cents(250), NoPrice, T0 + 365 * Day - 1),
      Raw("TRADE", "BUY", Market2, Yes, Tok(3), Cents(199), NoPrice, T0) }

\* the trades of a call made while another awaits the resolver
OtherUniverse ==
    { Raw("TRADE", "SELL", Market1, Yes, Tok(5), Cents(250), NoPrice, T0 + 365 * Day - 1),
      Raw("TRADE", "BUY", Market2, Yes, Tok(3), Cents(199), NoPrice, T0) }

\* a SELL that is earlier than the BUYs of its key, BUYs before and after it,
\* later SELLs, one of 2 tokens for 1.01 and one of 2.0001 tokens at 0.50498
\* a token
LaterUniverse ==
    { Raw("TRADE", "SELL", Market1, Yes, Tok(5), Cents(250), NoPrice, T0),
      Raw("TRADE", "BUY", Market1, Yes, Tok(10), Cents(1000), NoPrice, T0 + Day),
      Raw("TRADE", "SELL", Market1, Yes, Tok(4), Cents(300), NoPrice, T0 + 2 * Day),
      Raw("TRADE", "BUY", Market1, Yes, Tok(3), Cents(150), NoPrice, T0 - Day),
      Raw("TRADE", "BUY", Market1, Yes, Tok(1), Cents(40), NoPrice, T0 + Day),
      Raw("TRADE", "SELL", Market1, Yes, Tok(2), Cents(101), NoPrice, T0 + 2 * Day),
      Raw("TRADE", "SELL", Market1, Yes, Tok(2) + Epsilon,
          MulF(Tok(2) + Epsilon, Frac(50498, 1000 * UnitsPerToken)), NoPrice,
          T0 + 2 * Day) }

\* redemptions as the history API returns them, with an empty outcome, one
\* that has its outcome, and the BUYs of the two outcomes of their market
RedeemUniverse ==
    { Raw("TRADE", "BUY", Market1, Yes, Tok(10), Cents(1000), NoPrice, T0),
      Raw("TRADE", "BUY", Market1, No, Tok(4), Cents(100), NoPrice, T0),
      Raw("REDEEM", "", Market1, <<>>, Tok(7), Cents(700), NoPrice, T0 + Day),
      Raw("REDEEM", "", Market1, Yes, Tok(3), Cents(300), NoPrice, T0 + Day),
      Raw("REDEEM", "", Market2, <<>>, Tok(2), Cents(200), NoPrice, T0 + Day) }

TaxYears == {2024, 2025}

\* fetchMarketsBatch has not been called
BatchIdle ==
    /\ unique = <<>>
    /\ batchAt = 0
    /\ inFlight = {}
    /\ results = <<>>
    /\ building = <<>>
    /\ answered = <<>>
    /\ fetchPc = "idle"
    /\ conditionIds = <<>>

\* fetchTradingHistory has not been called
HistoryIdle ==
    /\ offset = 0
    /\ allTrades = <<>>
    /\ requested = <<>>
    /\ historyPc = "idle"

\* the page as loaded (main.ts:11), nothing submitted
UiIdle ==
    /\ currentReport = Null
    /\ submits = <<>>
    /\ downloads = <<>>

\* the arrays of at most max records of universe; a record's transaction
\* hash is its place in the array
TradeArrays(universe, max) ==
    UNION { { [i \in 1..n |-> [f[i] EXCEPT !.transactionHash = i]] :
              f \in [1..n -> universe] } : n \in 0..max }

Token(outcome, winner) == [outcome |-> outcome, winner |-> winner]

\* what fetchMarket returns for one condition id: null or a MarketData
MarketAnswers ==
    { Null,
      [closed |-> FALSE, tokens |-> <<Token(Yes, TRUE), Token(No, FALSE)>>],
      [closed |-> TRUE, tokens |-> <<Token(Yes, FALSE), Token(No, FALSE)>>],
      [closed |-> TRUE, tokens |-> <<Token(<<"YES">>, TRUE), Token(<<"NO">>, FALSE)>>],
      [closed |-> TRUE, tokens |-> <<Token(Yes, FALSE), Token(No, TRUE)>>] }

-----------------------------------------------------------------------------
(* normalizeTrade and the sort *)

\* a variant that derives the price of every record
NormalizeTradeDerived(trade) ==
    IF trade.conditionId = <<>> \/ trade.outcome = <<>> THEN Null
    ELSE IF trade.type = "REDEEM"
    THEN [trade EXCEPT !.side = "SELL",
                       !.usdcSize = Frac(trade.size * 100, UnitsPerToken),
                       !.price = Frac(1, 1)]
    ELSE [trade EXCEPT !.price =
              DivF(MulF(UnitsPerToken, trade.usdcSize), 100 * trade.size)]

\* a variant that keeps the notional a redemption carries
NormalizeTradeKeepNotional(trade) ==
    IF trade.conditionId = <<>> \/ trade.outcome = <<>> THEN Null
    ELSE IF trade.type = "REDEEM"
    THEN [trade EXCEPT !.side = "SELL", !.price = Frac(1, 1)]
    ELSE [trade EXCEPT !.price =
              IF trade.price.n # 0 THEN trade.price
              ELSE DivF(MulF(UnitsPerToken, trade.usdcSize), 100 * trade.size)]

\* a variant that looks at the market identifier only
NormalizeTradeIdOnly(trade) ==
    IF trade.conditionId = <<>> THEN Null
    ELSE IF trade.type = "REDEEM"
    THEN [trade EXCEPT !.side = "SELL",
                       !.usdcSize = Frac(trade.size * 100, UnitsPerToken),
                       !.price = Frac(1, 1)]
    ELSE [trade EXCEPT !.price =
              IF trade.price.n # 0 THEN trade.price
              ELSE DivF(MulF(UnitsPerToken, trade.usdcSize), 100 * trade.size)]

NormalizeTrade(trade) ==
    IF trade.conditionId = <<>> \/ trade.outcome = <<>> THEN Null
    ELSE IF trade.type = "REDEEM"
    THEN [trade EXCEPT !.side = "SELL",
                       !.usdcSize = Frac(trade.size * 100, UnitsPerToken),
                       !.price = Frac(1, 1)]
    ELSE [trade EXCEPT !.price =
              IF trade.price.n # 0 THEN trade.price
              ELSE DivF(MulF(UnitsPerToken, trade.usdcSize), 100 * trade.size)]

\* trades.map(normalizeTrade).filter(Boolean)
RECURSIVE MapFilter(_)
MapFilter(arr) ==
    IF Len(arr) = 0 THEN <<>>
    ELSE LET n == NormalizeTrade(arr[Len(arr)])
             front == MapFilter(SubSeq(arr, 1, Len(arr) - 1))
         IN IF n = Null THEN front ELSE Append(front, n)

\* a variant that puts t before the elements of its timestamp
InsertBeforeTies(arr, t) ==
    LET k == Cardinality({i \in 1..Len(arr) : arr[i].timestamp - t.timestamp < 0})
    IN SubSeq(arr, 1, k) \o <<t>> \o SubSeq(arr, k + 1, Len(arr))

\* where a stable sort puts t among the sorted arr: after every element that
\* does not compare greater
InsertByTimestamp(arr, t) ==
    LET k == Cardinality({i \in 1..Len(arr) : arr[i].timestamp - t.timestamp <= 0})
    IN SubSeq(arr, 1, k) \o <<t>> \o SubSeq(arr, k + 1, Len(arr))

\* a variant that leaves the array as it is
Unsorted(arr) == arr

\* normalized.sort((a, b) => a.timestamp - b.timestamp)
RECURSIVE SortByTimestamp(_)
SortByTimestamp(arr) ==
    IF Len(arr) = 0 THEN <<>>
    ELSE InsertByTimestamp(SortByTimestamp(SubSeq(arr, 1, Len(arr) - 1)), arr[Len(arr)])

-----------------------------------------------------------------------------
(* The inventory: a sequence of [key, lots] in insertion order of the keys *)

HasKey(inv, key) == \E i \in 1..Len(inv) : inv[i].key = key

KeyIndex(inv, key) == CHOOSE i \in 1..Len(inv) : inv[i].key = key

\* a variant that falls back on the first queue of the map
GetQueueOrFirst(inv, key) ==
    IF HasKey(inv, key) THEN inv[KeyIndex(inv, key)].lots
    ELSE IF Len(inv) > 0 THEN inv[1].lots ELSE <<>>

\* inventory.get(key) || []
GetQueue(inv, key) == IF HasKey(inv, key) THEN inv[KeyIndex(inv, key)].lots ELSE <<>>

\* a variant that puts the lot at the head (unshift)
PushLotFront(queue, lot) == <<lot>> \o queue

\* queue.push(lot)
PushLot(queue, lot) == Append(queue, lot)

NewLot(trade) ==
    [acquisitionDate |-> trade.timestamp,
     quantity |-> trade.size,
     costBasisPerToken |-> DivF(trade.usdcSize, trade.size),
     totalCostBasis |-> trade.usdcSize,
     marketTitle |-> trade.title,
     transactionHash |-> trade.transactionHash,
     outcome |-> trade.outcome]

\* a variant that adds a BUY to the last lot of the queue, at the average cost
AddToInventoryMerged(inv, key, trade) ==
    LET inv1 == IF HasKey(inv, key) THEN inv
                ELSE Append(inv, [key |-> key, lots |-> <<>>])
        i == KeyIndex(inv1, key)
        queue == inv1[i].lots
        last == queue[Len(queue)]
    IN IF Len(queue) = 0 THEN [inv1 EXCEPT ![i].lots = PushLot(@, NewLot(trade))]
       ELSE [inv1 EXCEPT ![i].lots[Len(queue)] =
                [last EXCEPT !.quantity = last.quantity + trade.size,
                             !.totalCostBasis = AddF(last.totalCostBasis, trade.usdcSize),
                             !.costBasisPerToken =
                                 DivF(AddF(last.totalCostBasis, trade.usdcSize),
                                      last.quantity + trade.size)]]

AddToInventory(inv, key, trade) ==
    LET inv1 == IF HasKey(inv, key) THEN inv
                ELSE Append(inv, [key |-> key, lots |-> <<>>])
        i == KeyIndex(inv1, key)
    IN [inv1 EXCEPT ![i].lots = PushLot(@, NewLot(trade))]

-----------------------------------------------------------------------------
(* matchSellToBuys *)

\* trade.usdcSize / trade.size, in cents per unit
ProceedsPerToken(trade) == DivF(trade.usdcSize, trade.size)

\* the entry pushed for one lot (calculator.ts:118-132)
LotEntry(trade, lot, qty) ==
    LET proceeds == MulF(qty, ProceedsPerToken(trade))
        costBasis == MulF(qty, lot.costBasisPerToken)
        gainLoss == SubF(proceeds, costBasis)
        holdingDays == HoldingDays(trade.timestamp, lot.acquisitionDate)
    IN [description |-> Description(trade.outcome, trade.title),
        dateAcquired |-> FormatDate(lot.acquisitionDate),
        dateSold |-> FormatDate(trade.timestamp),
        proceeds |-> Round(proceeds),
        costBasis |-> Round(costBasis),
        gainLoss |-> Round(gainLoss),
        isLongTerm |-> IsLongTerm(holdingDays),
        holdingDays |-> holdingDays,
        notANumber |-> NotANumber([proceeds |-> proceeds, costBasis |-> costBasis,
                                   gainLoss |-> gainLoss])]

\* the entry pushed for an oversold remainder (calculator.ts:144-154)
OversellEntry(trade, remaining) ==
    LET proceeds == MulF(remaining, ProceedsPerToken(trade))
    IN [description |-> Description(trade.outcome, trade.title),
        dateAcquired |-> "VARIOUS",
        dateSold |-> FormatDate(trade.timestamp),
        proceeds |-> Round(proceeds),
        costBasis |-> 0,
        gainLoss |-> Round(proceeds),
        isLongTerm |-> FALSE,
        holdingDays |-> 0,
        notANumber |-> NotANumber([proceeds |-> proceeds, gainLoss |-> proceeds])]

\* `Sold ${remaining} more shares than owned for ${key}`
Warning(remaining, key) == [remaining |-> remaining, key |-> key]

\* history records, one for each entry
LotMatch(key, trade, lot, qty) ==
    [kind |-> "lot", key |-> key, qty |-> qty, sell |-> trade.transactionHash,
     lot |-> lot.transactionHash, disposed |-> trade.timestamp,
     acquired |-> lot.acquisitionDate, left |-> lot.quantity - qty]

OversellMatch(key, trade, remaining) ==
    [kind |-> "oversell", key |-> key, qty |-> remaining, sell |-> trade.transactionHash,
     lot |-> 0, disposed |-> trade.timestamp, acquired |-> 0, left |-> 0]

WorthlessMatch(position, lot, taxYearEnd) ==
    [kind |-> "worthless", key |-> position.positionKey, qty |-> lot.quantity, sell |-> 0,
     lot |-> lot.transactionHash, disposed |-> taxYearEnd,
     acquired |-> lot.acquisitionDate, left |-> 0]

\* a variant that compares with zero
AboveZero(remaining) == remaining > 0

\* remaining > 0.0001
AboveEpsilon(remaining) == remaining > Epsilon

\* a variant that always removes the head lot after a match
AlwaysShift(quantity) == TRUE

\* lot.quantity < 0.0001
Negligible(quantity) == quantity < Epsilon

\* the while loop (calculator.ts:114-140); acc holds the queue, what remains of
\* the sell, the entries pushed and their history
RECURSIVE MatchLoop(_, _, _)
MatchLoop(key, trade, acc) ==
    IF AboveEpsilon(acc.remaining) /\ Len(acc.queue) > 0
    THEN LET lot == acc.queue[1]
             qty == Min(acc.remaining, lot.quantity)
             left == lot.quantity - qty
         IN MatchLoop(key, trade,
                [queue |-> IF Negligible(left) THEN Tail(acc.queue)
                           ELSE <<[lot EXCEPT !.quantity = left]>> \o Tail(acc.queue),
                 remaining |-> acc.remaining - qty,
                 entries |-> Append(acc.entries, LotEntry(trade, lot, qty)),
                 log |-> Append(acc.log, LotMatch(key, trade, lot, qty))])
    ELSE acc

\* a variant that keeps what was oversold in the queue, as a lot of negative
\* quantity that later BUYs are set against
MatchSellToBuysCarried(inv, key, trade) ==
    LET m == MatchLoop(key, trade,
                 [queue |-> GetQueue(inv, key), remaining |-> trade.size,
                  entries |-> <<>>, log |-> <<>>])
    IN IF AboveEpsilon(m.remaining)
       THEN [queue |-> <<[NewLot(trade) EXCEPT !.quantity = -m.remaining]>>,
             newEntries |-> Append(m.entries, OversellEntry(trade, m.remaining)),
             log |-> Append(m.log, OversellMatch(key, trade, m.remaining)),
             warning |-> Warning(m.remaining, key)]
       ELSE [queue |-> m.queue, newEntries |-> m.entries, log |-> m.log, warning |-> Null]

\* a variant that warns only when the sell met no lot
MatchSellToBuysWarnUnmatched(inv, key, trade) ==
    LET m == MatchLoop(key, trade,
                 [queue |-> GetQueue(inv, key), remaining |-> trade.size,
                  entries |-> <<>>, log |-> <<>>])
    IN IF AboveEpsilon(m.remaining)
       THEN [queue |-> m.queue,
             newEntries |-> Append(m.entries, OversellEntry(trade, m.remaining)),
             log |-> Append(m.log, OversellMatch(key, trade, m.remaining)),
             warning |-> IF Len(m.entries) = 0 THEN Warning(m.remaining, key) ELSE Null]
       ELSE [queue |-> m.queue, newEntries |-> m.entries, log |-> m.log, warning |-> Null]

\* what matchSellToBuys does: the queue it leaves, the entries it returns and
\* the warning (Null when none)
MatchSellToBuys(inv, key, trade) ==
    LET m == MatchLoop(key, trade,
                 [queue |-> GetQueue(inv, key), remaining |-> trade.size,
                  entries |-> <<>>, log |-> <<>>])
    IN IF AboveEpsilon(m.remaining)
       THEN [queue |-> m.queue,
             newEntries |-> Append(m.entries, OversellEntry(trade, m.remaining)),
             log |-> Append(m.log, OversellMatch(key, trade, m.remaining)),
             warning |-> Warning(m.remaining, key)]
       ELSE [queue |-> m.queue, newEntries |-> m.entries, log |-> m.log, warning |-> Null]

\* the queue is mutated in place: a queue that is in the map changes there
SetQueue(inv, key, queue) ==
    IF HasKey(inv, key) THEN [inv EXCEPT ![KeyIndex(inv, key)].lots = queue] ELSE inv

-----------------------------------------------------------------------------
(* collectOpenPositions, processWorthlessPositions, calculateSummary *)

RECURSIVE SumFracBy(_, _)
SumFracBy(arr, key) ==
    IF Len(arr) = 0 THEN Cents(0)
    ELSE AddF(SumFracBy(SubSeq(arr, 1, Len(arr) - 1), key), arr[Len(arr)][key])

OpenPosition(key, lots) ==
    [positionKey |-> key,
     conditionId |-> SplitConditionId(key),
     outcome |-> SplitOutcome(key),
     quantity |-> SumBy(lots, "quantity"),
     costBasis |-> SumFracBy(lots, "totalCostBasis"),
     lots |-> lots,
     title |-> lots[1].marketTitle]

RECURSIVE CollectOpenPositions(_)
CollectOpenPositions(inv) ==
    IF Len(inv) = 0 THEN <<>>
    ELSE LET last == inv[Len(inv)]
             front == CollectOpenPositions(SubSeq(inv, 1, Len(inv) - 1))
         IN IF Len(last.lots) = 0 THEN front
            ELSE Append(front, OpenPosition(last.key, last.lots))

\* market.tokens.find(t => t.winner): the first winner, Null when none
FindWinner(tokens) ==
    LET hits == {i \in 1..Len(tokens) : tokens[i].winner}
    IN IF hits = {} THEN Null ELSE tokens[CHOOSE i \in hits : \A j \in hits : i <= j]

\* marketMap.get(id): Null when the map has no entry
MapGet(map, id) == IF id \in DOMAIN map THEN map[id] ELSE Null

\* a variant that compares the outcomes as they are written
IsWorthlessCaseSensitive(position, map) ==
    LET market == MapGet(map, position.conditionId)
    IN /\ market # Null
       /\ market.closed
       /\ FindWinner(market.tokens) # Null
       /\ position.outcome # FindWinner(market.tokens).outcome

\* a variant that takes a market without an entry for a lost one
IsWorthlessWhenMissing(position, map) ==
    LET market == MapGet(map, position.conditionId)
    IN \/ market = Null
       \/ /\ market.closed
          /\ FindWinner(market.tokens) # Null
          /\ ToUpperCase(position.outcome) # ToUpperCase(FindWinner(market.tokens).outcome)

\* calculator.ts:200-208
IsWorthless(position, map) ==
    LET market == MapGet(map, position.conditionId)
    IN /\ market # Null
       /\ market.closed
       /\ FindWinner(market.tokens) # Null
       /\ ToUpperCase(position.outcome) # ToUpperCase(FindWinner(market.tokens).outcome)

\* a variant that writes off the lot's original total cost
WorthlessEntryOfTotal(position, lot, taxYearEnd) ==
    LET holdingDays == HoldingDays(taxYearEnd, lot.acquisitionDate)
    IN [description |-> Description(position.outcome, position.title),
        dateAcquired |-> FormatDate(lot.acquisitionDate),
        dateSold |-> FormatDate(taxYearEnd),
        proceeds |-> 0,
        costBasis |-> Round(lot.totalCostBasis),
        gainLoss |-> -Round(lot.totalCostBasis),
        isLongTerm |-> IsLongTerm(holdingDays),
        holdingDays |-> holdingDays,
        notANumber |-> {}]

\* the entry pushed for one lot of a worthless position (calculator.ts:210-221)
WorthlessEntry(position, lot, taxYearEnd) ==
    LET holdingDays == HoldingDays(taxYearEnd, lot.acquisitionDate)
    IN [description |-> Description(position.outcome, position.title),
        dateAcquired |-> FormatDate(lot.acquisitionDate),
        dateSold |-> FormatDate(taxYearEnd),
        proceeds |-> 0,
        costBasis |-> Round(MulF(lot.quantity, lot.costBasisPerToken)),
        gainLoss |-> -Round(MulF(lot.quantity, lot.costBasisPerToken)),
        isLongTerm |-> IsLongTerm(holdingDays),
        holdingDays |-> holdingDays,
        notANumber |-> NotANumber(
            [costBasis |-> MulF(lot.quantity, lot.costBasisPerToken),
             gainLoss |-> MulF(lot.quantity, lot.costBasisPerToken)])]

\* the worthless positions, in order
WorthlessPositions(positions, map) ==
    SelectSeq(positions, LAMBDA p : IsWorthless(p, map))

\* the entries (field "entries") and their history (field "log") of the lots
\* of the positions ps
RECURSIVE WriteOff(_, _)
WriteOff(ps, taxYearEnd) ==
    IF Len(ps) = 0 THEN [entries |-> <<>>, log |-> <<>>]
    ELSE LET p == ps[Len(ps)]
             front == WriteOff(SubSeq(ps, 1, Len(ps) - 1), taxYearEnd)
         IN [entries |-> front.entries \o
                 [i \in 1..Len(p.lots) |-> WorthlessEntry(p, p.lots[i], taxYearEnd)],
             log |-> front.log \o
                 [i \in 1..Len(p.lots) |-> WorthlessMatch(p, p.lots[i], taxYearEnd)]]

ProcessWorthlessPositions(positions, map, taxYearEnd) ==
    WriteOff(WorthlessPositions(positions, map), taxYearEnd)

\* positions.map(p => p.conditionId)
ConditionIds(positions) == [i \in 1..Len(positions) |-> positions[i].conditionId]

\* a variant that keeps every id
Every(ids) == ids

\* [...new Set(conditionIds)]: the ids, each at the place of its first
\* occurrence; fetchMarket is called once for each (pdf.d.ts:86-88)
RECURSIVE Unique(_)
Unique(ids) ==
    IF Len(ids) = 0 THEN <<>>
    ELSE LET front == Unique(SubSeq(ids, 1, Len(ids) - 1))
             last == ids[Len(ids)]
         IN IF \E i \in 1..Len(front) : front[i] = last THEN front
            ELSE Append(front, last)

\* [...new Set(conditionIds)]
UniqueIds(positions) == {positions[i].conditionId : i \in 1..Len(positions)}

\* the maps fetchMarketsBatch can return for these ids: an id whose lookup
\* returned null has no entry
MarketMaps(ids) ==
    UNION { [found -> MarketAnswers \ {Null}] : found \in SUBSET ids }

\* a variant that takes the total gain as total proceeds less total cost
CalculateSummaryByDifference(es) ==
    [count |-> Len(es),
     totalProceeds |-> Round(Cents(SumBy(es, "proceeds"))),
     totalCostBasis |-> Round(Cents(SumBy(es, "costBasis"))),
     totalGainLoss |-> Round(Cents(SumBy(es, "proceeds") - SumBy(es, "costBasis")))]

CalculateSummary(es) ==
    [count |-> Len(es),
     totalProceeds |-> Round(Cents(SumBy(es, "proceeds"))),
     totalCostBasis |-> Round(Cents(SumBy(es, "costBasis"))),
     totalGainLoss |-> Round(Cents(SumBy(es, "gainLoss")))]

ShortTerm(es) == SelectSeq(es, LAMBDA e : ~e.isLongTerm)

\* a variant that reads the holding period in place of the flag
LongTermByDays(es) == SelectSeq(es, LAMBDA e : e.holdingDays > LONG_TERM_DAYS)

LongTerm(es) == SelectSeq(es, LAMBDA e : e.isLongTerm)

\* a variant that keeps the positions it should drop
ReportedPositionsInverted(positions, map) ==
    SelectSeq(positions, LAMBDA p : IsWorthless(p, map))

\* the positions the report lists (calculator.ts:62)
ReportedPositions(positions, map) == positions

\* a variant that takes the grand total from the short-term entries
TaxReportShortTermTotal(es, ws, positions, map) ==
    [shortTerm |-> ShortTerm(es),
     longTerm |-> LongTerm(es),
     shortTermSummary |-> CalculateSummary(ShortTerm(es)),
     longTermSummary |-> CalculateSummary(LongTerm(es)),
     totalTransactions |-> Len(es),
     totalGainLoss |-> Round(Cents(SumBy(ShortTerm(es), "gainLoss"))),
     warnings |-> ws,
     openPositions |-> ReportedPositions(positions, map)]

TaxReport(es, ws, positions, map) ==
    [shortTerm |-> ShortTerm(es),
     longTerm |-> LongTerm(es),
     shortTermSummary |-> CalculateSummary(ShortTerm(es)),
     longTermSummary |-> CalculateSummary(LongTerm(es)),
     totalTransactions |-> Len(es),
     totalGainLoss |-> Round(Cents(SumBy(es, "gainLoss"))),
     warnings |-> ws,
     openPositions |-> ReportedPositions(positions, map)]

\* the for loop over the first k trades of norm (calculator.ts:29-39), begun
\* with the inventory inv: the inventory, the entries and the warnings it
\* leaves
\* calculator.ts:35-37, m being what matchSellToBuys did
AfterSell(s, key, m) ==
    [inventory |-> SetQueue(s.inventory, key, m.queue),
     entries |-> s.entries \o m.newEntries,
     warnings |-> IF m.warning # Null THEN Append(s.warnings, m.warning)
                  ELSE s.warnings]

\* one iteration (calculator.ts:30-38)
Iteration(s, key, trade) ==
    IF trade.side = "BUY"
    THEN [s EXCEPT !.inventory = AddToInventory(s.inventory, key, trade)]
    ELSE IF trade.side = "SELL"
    THEN AfterSell(s, key, MatchSellToBuys(s.inventory, key, trade))
    ELSE s

RECURSIVE ProcessTradesFrom(_, _, _)
ProcessTradesFrom(inv, norm, k) ==
    IF k = 0 THEN [inventory |-> inv, entries |-> <<>>, warnings |-> <<>>]
    ELSE Iteration(ProcessTradesFrom(inv, norm, k - 1),
                   PositionKey(norm[k].conditionId, norm[k].outcome), norm[k])

\* the loop of a call: the inventory is empty at its start (calculator.ts:22)
ProcessTrades(norm, k) == ProcessTradesFrom(<<>>, norm, k)

\* the loop over all of norm
LoopOn(inv, norm) == ProcessTradesFrom(inv, norm, Len(norm))

\* the open positions of a call that finds the inventory inv
PositionsFrom(inv, ts) ==
    CollectOpenPositions(LoopOn(inv, SortByTimestamp(MapFilter(ts))).inventory)

\* calculator.ts:45-63, of what the loop left and of the positions collected
ReportOf(s, positions, year, map) ==
    TaxReport(s.entries \o
                  (IF Len(positions) > 0
                   THEN ProcessWorthlessPositions(positions, map, TaxYearEnd(year)).entries
                   ELSE <<>>),
              s.warnings, positions, map)

\* calculator.ts:42-63
FromLoop(s, year, map) == ReportOf(s, CollectOpenPositions(s.inventory), year, map)

\* the report of a call that finds the inventory inv
GenerateTaxReportFrom(inv, ts, year, map) ==
    FromLoop(LoopOn(inv, SortByTimestamp(MapFilter(ts))), year, map)

\* generateTaxReport as a function of its arguments and of the resolver's
\* answers (calculator.ts:14-64)
GenerateTaxReport(ts, year, map) ==
    LET norm == SortByTimestamp(MapFilter(ts))
        s == ProcessTrades(norm, Len(norm))
        positions == CollectOpenPositions(s.inventory)
        worthless == IF Len(positions) > 0
                     THEN ProcessWorthlessPositions(positions, map, TaxYearEnd(year)).entries
                     ELSE <<>>
    IN TaxReport(s.entries \o worthless, s.warnings, positions, map)

-----------------------------------------------------------------------------
(* generateTaxReport, step by step *)

Init ==
    /\ trades \in TradeArrays(MainUniverse, MaxTrades) \cup
                  TradeArrays(DustUniverse, MaxDustTrades)
    /\ taxYear \in TaxYears
    /\ pc = "start"
    /\ normalized = <<>>
    /\ idx = 1
    /\ inventory = <<>>
    /\ entries = <<>>
    /\ warnings = <<>>
    /\ matchLog = <<>>
    /\ openPositions = <<>>
    /\ marketMap = <<>>
    /\ lookups = <<>>
    /\ report = Null
    /\ given = trades
    /\ calls = 1
    /\ previous = {}
    /\ other = Null
    /\ mergedPdf = Null
    /\ pdfDoc = Null
    /\ BatchIdle
    /\ HistoryIdle
    /\ UiIdle

\* calculator.ts:25-26
Normalize ==
    /\ pc = "start"
    /\ normalized' = SortByTimestamp(MapFilter(trades))
    /\ pc' = "loop"
    /\ UNCHANGED <<trades, taxYear, idx, inventory, entries, warnings, matchLog,
                   openPositions, marketMap, lookups, report,
                   given, calls, previous, other, mergedPdf,
                   pdfDoc, batchVars, historyVars, uiVars>>

\* one iteration of the for loop on a BUY (calculator.ts:29-33)
ProcessBuy ==
    /\ pc = "loop"
    /\ idx <= Len(normalized)
    /\ normalized[idx].side = "BUY"
    /\ LET trade == normalized[idx]
           key == PositionKey(trade.conditionId, trade.outcome)
       IN inventory' = AddToInventory(inventory, key, trade)
    /\ idx' = idx + 1
    /\ UNCHANGED <<trades, taxYear, pc, normalized, entries, warnings, matchLog,
                   openPositions, marketMap, lookups, report,
                   given, calls, previous, other, mergedPdf,
                   pdfDoc, batchVars, historyVars, uiVars>>

\* one iteration of the for loop on a SELL (calculator.ts:29-30, 34-38)
ProcessSell ==
    /\ pc = "loop"
    /\ idx <= Len(normalized)
    /\ normalized[idx].side = "SELL"
    /\ LET trade == normalized[idx]
           key == PositionKey(trade.conditionId, trade.outcome)
           m == MatchSellToBuys(inventory, key, trade)
       IN /\ inventory' = SetQueue(inventory, key, m.queue)
          /\ entries' = entries \o m.newEntries
          /\ matchLog' = matchLog \o m.log
          /\ warnings' = IF m.warning # Null THEN Append(warnings, m.warning)
                         ELSE warnings
    /\ idx' = idx + 1
    /\ UNCHANGED <<trades, taxYear, pc, normalized, openPositions, marketMap, lookups,
                   report,
                   given, calls, previous, other, mergedPdf,
                   pdfDoc, batchVars, historyVars, uiVars>>

\* calculator.ts:42-45
Collect ==
    /\ pc = "loop"
    /\ idx > Len(normalized)
    /\ openPositions' = CollectOpenPositions(inventory)
    /\ pc' = IF Len(openPositions') > 0 THEN "resolve" ELSE "summarize"
    /\ UNCHANGED <<trades, taxYear, normalized, idx, inventory, entries, warnings,
                   matchLog, marketMap, lookups, report,
                   given, calls, previous, other, mergedPdf,
                   pdfDoc, batchVars, historyVars, uiVars>>

\* calculator.ts:46-47, with the resolver's answer
Resolve ==
    /\ pc = "resolve"
    /\ \E map \in MarketMaps(UniqueIds(openPositions)) :
          LET w == ProcessWorthlessPositions(openPositions, map, TaxYearEnd(taxYear))
          IN /\ marketMap' = map
             /\ lookups' = Unique(ConditionIds(openPositions))
             /\ entries' = entries \o w.entries
             /\ matchLog' = matchLog \o w.log
    /\ pc' = "summarize"
    /\ UNCHANGED <<trades, taxYear, normalized, idx, inventory, warnings,
                   openPositions, report,
                   given, calls, previous, other, mergedPdf,
                   pdfDoc, batchVars, historyVars, uiVars>>

\* calculator.ts:51-63
Return ==
    /\ pc = "summarize"
    /\ report' = TaxReport(entries, warnings, openPositions, marketMap)
    /\ pc' = "done"
    /\ UNCHANGED <<trades, taxYear, normalized, idx, inventory, entries, warnings,
                   matchLog, openPositions, marketMap, lookups,
                   given, calls, previous, other, mergedPdf,
                   pdfDoc, batchVars, historyVars, uiVars>>

Next == Normalize \/ ProcessBuy \/ ProcessSell \/ Collect \/ Resolve \/ Return

Spec == Init /\ [][Next]_vars

\* the same call on the arrays of EdgeUniverse, for the year of their trades
InitEdge ==
    /\ trades \in TradeArrays(EdgeUniverse, MaxEdgeTrades)
    /\ taxYear = 2024
    /\ pc = "start"
    /\ normalized = <<>>
    /\ idx = 1
    /\ inventory = <<>>
    /\ entries = <<>>
    /\ warnings = <<>>
    /\ matchLog = <<>>
    /\ openPositions = <<>>
    /\ marketMap = <<>>
    /\ lookups = <<>>
    /\ report = Null
    /\ given = trades
    /\ calls = 1
    /\ previous = {}
    /\ other = Null
    /\ mergedPdf = Null
    /\ pdfDoc = Null
    /\ BatchIdle
    /\ HistoryIdle
    /\ UiIdle

SpecEdge == InitEdge /\ [][Next]_vars

\* a variant in which the inventory outlives the call
SharedMap == inventory

\* const inventory = new Map() (calculator.ts:22)
NewMap == <<>>

\* generateTaxReport is called again after it has returned: every local is
\* made anew (calculator.ts:18-25)
CallAgain ==
    /\ pc = "done"
    /\ calls < MaxCalls
    /\ trades' \in TradeArrays(TwiceUniverse, MaxTwiceTrades)
    /\ taxYear' = taxYear
    /\ given' = trades'
    /\ calls' = calls + 1
    /\ previous' = {openPositions[m].positionKey : m \in 1..Len(openPositions)}
    /\ pc' = "start"
    /\ normalized' = <<>>
    /\ idx' = 1
    /\ inventory' = NewMap
    /\ entries' = <<>>
    /\ warnings' = <<>>
    /\ matchLog' = <<>>
    /\ openPositions' = <<>>
    /\ marketMap' = <<>>
    /\ lookups' = <<>>
    /\ report' = Null
    /\ other' = Null
    /\ UNCHANGED <<mergedPdf, pdfDoc, batchVars, historyVars, uiVars>>

\* while this call awaits fetchMarketsBatch (calculator.ts:46, 195) another
\* call of generateTaxReport runs, with locals of its own
Interleave ==
    /\ pc = "resolve"
    /\ other = Null
    /\ \E ts \in TradeArrays(OtherUniverse, MaxOtherTrades) :
          \E map \in MarketMaps(UniqueIds(PositionsFrom(NewMap, ts))) :
              other' = [trades |-> ts, taxYear |-> taxYear, marketMap |-> map,
                        report |-> GenerateTaxReportFrom(NewMap, ts, taxYear, map)]
    /\ UNCHANGED <<trades, taxYear, pc, normalized, idx, inventory, entries, warnings,
                   matchLog, openPositions, marketMap, lookups, report, given, calls,
                   previous, mergedPdf, pdfDoc, batchVars, historyVars, uiVars>>

NextTwice ==
    Normalize \/ ProcessBuy \/ ProcessSell \/ Collect \/ Resolve \/ Return
        \/ CallAgain \/ Interleave

\* calls of generateTaxReport that follow one another on the arrays of
\* TwiceUniverse, for the year of their trades
InitTwice ==
    /\ trades \in TradeArrays(TwiceUniverse, MaxTwiceTrades)
    /\ taxYear = 2024
    /\ pc = "start"
    /\ normalized = <<>>
    /\ idx = 1
    /\ inventory = <<>>
    /\ entries = <<>>
    /\ warnings = <<>>
    /\ matchLog = <<>>
    /\ openPositions = <<>>
    /\ marketMap = <<>>
    /\ lookups = <<>>
    /\ report = Null
    /\ given = trades
    /\ calls = 1
    /\ previous = {}
    /\ other = Null
    /\ mergedPdf = Null
    /\ pdfDoc = Null
    /\ BatchIdle
    /\ HistoryIdle
    /\ UiIdle

SpecTwice == InitTwice /\ [][NextTwice]_vars

\* the same call on the arrays of OddUniverse
InitOdd ==
    /\ trades \in TradeArrays(OddUniverse, MaxOddTrades)
    /\ taxYear = 2024
    /\ pc = "start"
    /\ normalized = <<>>
    /\ idx = 1
    /\ inventory = <<>>
    /\ entries = <<>>
    /\ warnings = <<>>
    /\ matchLog = <<>>
    /\ openPositions = <<>>
    /\ marketMap = <<>>
    /\ lookups = <<>>
    /\ report = Null
    /\ given = trades
    /\ calls = 1
    /\ previous = {}
    /\ other = Null
    /\ mergedPdf = Null
    /\ pdfDoc = Null
    /\ BatchIdle
    /\ HistoryIdle
    /\ UiIdle

SpecOdd == InitOdd /\ [][Next]_vars

-----------------------------------------------------------------------------
(* Properties.  What the properties read of a run *)

AfterLoop == pc \in {"resolve", "summarize", "done"}

AfterResolve == pc \in {"summarize", "done"}

KeyOf(trade) == PositionKey(trade.conditionId, trade.outcome)

\* the place in the processing order of the trade with this transaction hash
PlaceOf(hash) == CHOOSE p \in 1..Len(normalized) : normalized[p].transactionHash = hash

LogIndexes(kind) == {i \in 1..Len(matchLog) : matchLog[i].kind = kind}

\* the sum of f[x] over the x of set, for a function f
RECURSIVE SumFn(_, _)
SumFn(set, f) ==
    IF set = {} THEN 0
    ELSE LET x == CHOOSE y \in set : TRUE IN f[x] + SumFn(set \ {x}, f)

SumOver(set, f(_)) == SumFn(set, [x \in set |-> f(x)])

\* the keys of the trades processed
Keys == {KeyOf(normalized[p]) : p \in 1..Len(normalized)}

BoughtQuantity(key) ==
    SumOver({p \in 1..Len(normalized) :
                 normalized[p].side = "BUY" /\ KeyOf(normalized[p]) = key},
            LAMBDA p : normalized[p].size)

MatchedQuantity(key) ==
    SumOver({i \in LogIndexes("lot") : matchLog[i].key = key}, LAMBDA i : matchLog[i].qty)

OpenQuantity(key) ==
    LET queue == GetQueue(inventory, key)
    IN SumOver(1..Len(queue), LAMBDA i : queue[i].quantity)

\* the matches that removed their lot from the queue of the key
Removals(key) ==
    {i \in LogIndexes("lot") : matchLog[i].key = key /\ matchLog[i].left < Epsilon}

OversoldKey(key) == \E w \in 1..Len(warnings) : warnings[w].key = key

\* the stream B1 (10 @ 1.0), B2 (10 @ 2.0), SELL 12 @ 3.0 on one key
ExampleStream ==
    /\ Len(normalized) = 3
    /\ \A p \in 1..3 : KeyOf(normalized[p]) = PositionKey(Market1, Yes)
    /\ normalized[1].side = "BUY" /\ normalized[1].size = Tok(10)
    /\ normalized[1].usdcSize = Cents(1000)
    /\ normalized[2].side = "BUY" /\ normalized[2].size = Tok(10)
    /\ normalized[2].usdcSize = Cents(2000)
    /\ normalized[3].side = "SELL" /\ normalized[3].size = Tok(12)
    /\ normalized[3].usdcSize = Cents(3600)

Amounts(e) == <<e.proceeds, e.costBasis, e.gainLoss>>

\* C1 (FIFO order).  A lot is matched only when every lot bought before it for
\* the same key has been matched down to nothing before; a sell and a lot meet
\* in at most one entry; every entry has its history record.  And the example:
\* B1 (10 @ 1.0), B2 (10 @ 2.0), SELL 12 @ 3.0 gives the entries (30, 10, 20)
\* and (6, 4, 2) and leaves B2 open with 8 tokens.
FifoOrder ==
    /\ Len(matchLog) = Len(entries)
    /\ \A i \in LogIndexes("lot") :
          \A p \in 1..(PlaceOf(matchLog[i].lot) - 1) :
              (normalized[p].side = "BUY" /\ KeyOf(normalized[p]) = matchLog[i].key)
              => \E j \in 1..(i - 1) :
                     /\ matchLog[j].kind = "lot"
                     /\ matchLog[j].lot = normalized[p].transactionHash
                     /\ matchLog[j].left < Epsilon
    /\ \A i, j \in LogIndexes("lot") :
          (matchLog[i].sell = matchLog[j].sell /\ matchLog[i].lot = matchLog[j].lot)
          => i = j
    /\ (ExampleStream /\ pc = "loop" /\ idx = 4) =>
          /\ Len(entries) = 2
          /\ Amounts(entries[1]) = <<3000, 1000, 2000>>
          /\ Amounts(entries[2]) = <<600, 400, 200>>
          /\ Len(GetQueue(inventory, PositionKey(Market1, Yes))) = 1
          /\ GetQueue(inventory, PositionKey(Market1, Yes))[1].quantity = Tok(8)
          /\ GetQueue(inventory, PositionKey(Market1, Yes))[1].transactionHash
                 = normalized[2].transactionHash

\* the example stream has been processed
FifoOrderReached == ExampleStream /\ pc = "loop" /\ idx = 4 /\ Len(entries) = 2

\* C2 (quantity conservation) as stated: for every key without an oversell
\* warning, open + matched equals bought up to one epsilon.
ConservationWithinEpsilon ==
    AfterLoop =>
        \A key \in Keys :
            ~OversoldKey(key) =>
                Abs(BoughtQuantity(key) - OpenQuantity(key) - MatchedQuantity(key))
                    <= Epsilon

\* C2 amended: for every key without an oversell warning, bought - (open +
\* matched) is the sum of what was left in the lots removed from the key's
\* queue, each of them below the epsilon: it is not negative, and below one
\* epsilon for each removed lot.
ConservationPerRemovedLot ==
    AfterLoop =>
        \A key \in Keys :
            ~OversoldKey(key) =>
                LET lost == BoughtQuantity(key) - OpenQuantity(key) - MatchedQuantity(key)
                IN /\ lost = SumOver(Removals(key), LAMBDA i : matchLog[i].left)
                   /\ lost >= 0
                   /\ Removals(key) = {} => lost = 0
                   /\ Removals(key) # {} => lost < Cardinality(Removals(key)) * Epsilon

\* a key without oversell that lost more than one epsilon in two removed lots
ConservationReached ==
    /\ pc = "done"
    /\ \E key \in Keys :
          /\ ~OversoldKey(key)
          /\ Cardinality(Removals(key)) = 2
          /\ BoughtQuantity(key) - OpenQuantity(key) - MatchedQuantity(key) > Epsilon

\* a step of the for loop on a SELL
SellStep == pc = "loop" /\ idx <= Len(normalized) /\ normalized[idx].side = "SELL"
            /\ idx' = idx + 1

\* C3 (oversell).  A SELL of more than the queue holds plus the epsilon pushes,
\* after one entry for each lot of the queue, one entry for the remainder
\* (cost 0, "VARIOUS", proceeds = remainder x unit proceeds rounded as every
\* amount of an entry is, gain = proceeds, short-term, 0 days), records one
\* warning with the key and the remainder and leaves the queue empty; any other
\* SELL records no warning and pushes no such entry.
OversellPolicy ==
    [][SellStep =>
        LET trade == normalized[idx]
            key == KeyOf(trade)
            queue == GetQueue(inventory, key)
            short == trade.size - SumOver(1..Len(queue), LAMBDA i : queue[i].quantity)
            new == SubSeq(entries', Len(entries) + 1, Len(entries'))
        IN IF short > Epsilon
           THEN /\ Len(new) = Len(queue) + 1
                /\ \A i \in 1..Len(queue) : new[i].dateAcquired # "VARIOUS"
                /\ LET e == new[Len(new)]
                       p == MathRound(DivF(MulF(short, trade.usdcSize), trade.size))
                   IN /\ e.dateAcquired = "VARIOUS"
                      /\ e.costBasis = 0
                      /\ e.proceeds = p
                      /\ e.gainLoss = p
                      /\ e.isLongTerm = FALSE
                      /\ e.holdingDays = 0
                /\ warnings' = Append(warnings, [remaining |-> short, key |-> key])
                /\ GetQueue(inventory', key) = <<>>
           ELSE /\ warnings' = warnings
                /\ \A i \in 1..Len(new) : new[i].dateAcquired # "VARIOUS"
    ]_vars

\* a SELL has consumed a lot and oversold the rest; a covered SELL came before
OversellReached ==
    /\ Len(matchLog) >= 3
    /\ matchLog[1].kind = "lot"
    /\ matchLog[Len(matchLog)].kind = "oversell"
    /\ matchLog[Len(matchLog) - 1].kind = "lot"
    /\ matchLog[Len(matchLog) - 1].sell = matchLog[Len(matchLog)].sell
    /\ matchLog[1].sell # matchLog[Len(matchLog)].sell
    /\ Len(warnings) = 1

WrittenOff(position) ==
    \E i \in LogIndexes("worthless") : matchLog[i].key = position.positionKey

LostMarket(position) ==
    /\ position.conditionId \in DOMAIN marketMap
    /\ marketMap[position.conditionId].closed
    /\ \E t \in 1..Len(marketMap[position.conditionId].tokens) :
          LET tokens == marketMap[position.conditionId].tokens
          IN /\ tokens[t].winner
             /\ \A u \in 1..(t - 1) : ~tokens[u].winner
             /\ ToUpperCase(tokens[t].outcome) # ToUpperCase(position.outcome)

\* C5 (which positions are written off).  After the resolver step an open
\* position has write-off entries if and only if the resolver answered for
\* its market, the market is closed, one of its tokens is the winner, and the
\* position's outcome differs from the winner's when both are upper-cased.
WorthlessIffLost ==
    AfterResolve =>
        \A k \in 1..Len(openPositions) :
            WrittenOff(openPositions[k]) <=> LostMarket(openPositions[k])

\* a closed market whose winner is written "YES": the position on "Yes" is
\* kept and the position on "No" is written off
WorthlessIffLostReached ==
    /\ AfterResolve
    /\ \E k, l \in 1..Len(openPositions) :
          /\ openPositions[k].outcome = Yes
          /\ openPositions[l].outcome = No
          /\ openPositions[k].conditionId = openPositions[l].conditionId
          /\ openPositions[k].conditionId \in DOMAIN marketMap
          /\ marketMap[openPositions[k].conditionId].closed
          /\ marketMap[openPositions[k].conditionId].tokens[1] = Token(<<"YES">>, TRUE)
          /\ ~WrittenOff(openPositions[k])
          /\ WrittenOff(openPositions[l])

\* the write-off entries of a position
WriteOffsOf(position) ==
    {i \in LogIndexes("worthless") : matchLog[i].key = position.positionKey}

\* the index in entries of the write-off of the k-th lot of the position
WriteOffOfLot(position, k) ==
    CHOOSE i \in WriteOffsOf(position) :
        Cardinality({j \in WriteOffsOf(position) : j < i}) = k - 1

\* C6 (shape of a write-off).  A position that is written off has one
\* write-off entry for each of its open lots, in the order of the lots, with
\* proceeds 0, cost basis = round(remaining quantity x unit cost), gain = -cost
\* basis, sold on 12/31 of the tax year, held floor((end of the tax year -
\* acquisition) / 86400) days.
WriteOffShape ==
    AfterResolve =>
        \A n \in 1..Len(openPositions) :
            LET position == openPositions[n]
            IN WrittenOff(position) =>
                /\ Cardinality(WriteOffsOf(position)) = Len(position.lots)
                /\ \A k \in 1..Len(position.lots) :
                      LET lot == position.lots[k]
                          e == entries[WriteOffOfLot(position, k)]
                          cost == MathRound(DivF(MulF(lot.quantity, lot.totalCostBasis),
                                                 normalized[PlaceOf(lot.transactionHash)].size))
                      IN /\ e.proceeds = 0
                         /\ e.costBasis = cost
                         /\ e.gainLoss = -cost
                         /\ e.dateSold = <<12, 31, taxYear>>
                         /\ e.dateAcquired = FormatDate(lot.acquisitionDate)
                         /\ e.holdingDays =
                                (DaysFromCivil(taxYear, 12, 31) * 86400 + 86399
                                     - lot.acquisitionDate) \div 86400

\* a position of two lots, the first of them partly sold, has been written off
WriteOffShapeReached ==
    /\ AfterResolve
    /\ \E n \in 1..Len(openPositions) :
          /\ WrittenOff(openPositions[n])
          /\ Len(openPositions[n].lots) = 2
          /\ openPositions[n].lots[1].quantity
                 < normalized[PlaceOf(openPositions[n].lots[1].transactionHash)].size
          /\ entries[WriteOffOfLot(openPositions[n], 1)].costBasis > 0
          /\ MathRound(openPositions[n].lots[1].totalCostBasis)
                 > entries[WriteOffOfLot(openPositions[n], 1)].costBasis

\* C7 (positions that stay open).  In the returned report every key whose
\* queue still holds lots after the FIFO pass and that was not lost (no answer,
\* market not closed, no winner, or on the winning outcome) is listed once in
\* openPositions, with the lots of its queue and their total quantity, and has
\* no write-off entry.
KeptOpenPositions ==
    pc = "done" =>
        \A q \in 1..Len(inventory) :
            LET key == inventory[q].key
                listed == {n \in 1..Len(report.openPositions) :
                               report.openPositions[n].positionKey = key}
                collected == {n \in 1..Len(openPositions) :
                                  openPositions[n].positionKey = key}
            IN (inventory[q].lots # <<>> /\ \A n \in collected : ~LostMarket(openPositions[n]))
               => /\ Cardinality(listed) = 1
                  /\ \A n \in listed :
                        /\ report.openPositions[n].lots = inventory[q].lots
                        /\ report.openPositions[n].quantity = OpenQuantity(key)
                        /\ report.openPositions[n].quantity > 0
                  /\ ~\E i \in LogIndexes("worthless") : matchLog[i].key = key

\* a report with a position on the winning outcome of a closed market, whose
\* first lot was partly sold, next to a position that was written off
KeptOpenPositionsReached ==
    /\ pc = "done"
    /\ \E n \in 1..Len(report.openPositions), m \in 1..Len(openPositions) :
          /\ ~WrittenOff(report.openPositions[n])
          /\ report.openPositions[n].conditionId \in DOMAIN marketMap
          /\ marketMap[report.openPositions[n].conditionId].closed
          /\ report.openPositions[n].lots[1].quantity
                 < normalized[PlaceOf(report.openPositions[n].lots[1].transactionHash)].size
          /\ WrittenOff(openPositions[m])

\* C8 (openPositions holds no written-off position), as stated: a position
\* for which write-off entries were pushed is not in the report's
\* openPositions.
OpenPositionsExcludeWrittenOff ==
    pc = "done" =>
        \A n \in 1..Len(report.openPositions) : ~WrittenOff(report.openPositions[n])

\* C9 (entry arithmetic), as stated: the gainLoss of every matched or oversold
\* entry is round(its proceeds - its costBasis), of the stored fields; a
\* write-off entry has proceeds 0 and gainLoss = -costBasis.
EntryArithmetic ==
    /\ \A i \in LogIndexes("lot") \cup LogIndexes("oversell") :
          entries[i].gainLoss = MathRound(Cents(entries[i].proceeds - entries[i].costBasis))
    /\ \A i \in LogIndexes("worthless") :
          entries[i].proceeds = 0 /\ entries[i].gainLoss = -entries[i].costBasis

\* a summary is the summary of the entries es
FieldSum(es, field) == SumOver(1..Len(es), LAMBDA i : es[i][field])

SummaryOf(summary, es) ==
    /\ summary.count = Len(es)
    /\ summary.totalProceeds = MathRound(Cents(FieldSum(es, "proceeds")))
    /\ summary.totalCostBasis = MathRound(Cents(FieldSum(es, "costBasis")))
    /\ summary.totalGainLoss = MathRound(Cents(FieldSum(es, "gainLoss")))

\* C10 (summary consistency).  In the returned report each summary's count is
\* the length of its partition, each of its totals is the rounded sum of the
\* field over the entries of the partition, and totalGainLoss is the rounded
\* sum of gainLoss over the entries of both partitions.
SummaryConsistency ==
    pc = "done" =>
        /\ SummaryOf(report.shortTermSummary, report.shortTerm)
        /\ SummaryOf(report.longTermSummary, report.longTerm)
        /\ report.totalGainLoss =
               MathRound(Cents(FieldSum(report.shortTerm, "gainLoss")
                               + FieldSum(report.longTerm, "gainLoss")))

\* a report with entries in both partitions, one of them with a gain that is
\* not its proceeds less its cost
SummaryConsistencyReached ==
    /\ pc = "done"
    /\ Len(report.shortTerm) > 0
    /\ Len(report.longTerm) > 0
    /\ \E i \in 1..Len(report.shortTerm) :
          report.shortTerm[i].gainLoss
              # report.shortTerm[i].proceeds - report.shortTerm[i].costBasis


LongTermPlaces == {i \in 1..Len(entries) : entries[i].isLongTerm}

ShortTermPlaces == {i \in 1..Len(entries) : ~entries[i].isLongTerm}

\* the k-th place of a set of places, in increasing order
Nth(places, k) == CHOOSE i \in places : Cardinality({j \in places : j <= i}) = k

\* C11 (partition).  In the returned report longTerm is the entries flagged
\* isLongTerm and shortTerm the other entries, each in the order the entries
\* were emitted, so that every entry is in exactly one of the two; and
\* totalTransactions = Len(shortTerm) + Len(longTerm) = the number of entries.
Partition ==
    pc = "done" =>
        /\ Len(report.longTerm) = Cardinality(LongTermPlaces)
        /\ Len(report.shortTerm) = Cardinality(ShortTermPlaces)
        /\ \A k \in 1..Len(report.longTerm) :
              report.longTerm[k] = entries[Nth(LongTermPlaces, k)]
        /\ \A k \in 1..Len(report.shortTerm) :
              report.shortTerm[k] = entries[Nth(ShortTermPlaces, k)]
        /\ report.totalTransactions = Len(report.shortTerm) + Len(report.longTerm)
        /\ report.totalTransactions = Len(entries)

\* a report with a long-term entry emitted before a short-term one, and an
\* entry with a holding period of exactly LONG_TERM_DAYS days
PartitionReached ==
    /\ pc = "done"
    /\ \E i, j \in 1..Len(entries) :
          /\ i < j
          /\ entries[i].isLongTerm /\ entries[i].holdingDays = LONG_TERM_DAYS
          /\ ~entries[j].isLongTerm
    /\ Len(report.longTerm) > 0 /\ Len(report.shortTerm) > 0

\* the orders n records can be given in: p[i] is the place in the input of the
\* record put at place i
Orders(n) == {p \in [1..n -> 1..n] : \A i, j \in 1..n : p[i] = p[j] => i = j}

Permuted(ts, p) == [i \in 1..Len(ts) |-> ts[p[i]]]

\* p keeps records of equal timestamp in the order they have in ts
KeepsTies(ts, p) ==
    \A i, j \in 1..Len(ts) :
        (i < j /\ ts[p[i]].timestamp = ts[p[j]].timestamp) => p[i] < p[j]

\* C12 (input-order independence), as stated: for every permutation of the
\* input records, with the same tax year and the same resolver answers,
\* generateTaxReport returns the report it returned for the input.
InputOrderIndependence ==
    pc = "done" =>
        \A p \in Orders(Len(trades)) :
            GenerateTaxReport(Permuted(trades, p), taxYear, marketMap) = report

\* C12 amended: for every permutation of the input records that keeps the
\* records of equal timestamp in their relative order, with the same tax year
\* and the same resolver answers, generateTaxReport returns the report it
\* returned for the input.
TieKeepingOrderIndependence ==
    pc = "done" =>
        \A p \in Orders(Len(trades)) :
            KeepsTies(trades, p) =>
                GenerateTaxReport(Permuted(trades, p), taxYear, marketMap) = report

\* a report with entries for an input that is not in timestamp order and holds
\* two records of one timestamp
TieKeepingOrderIndependenceReached ==
    /\ pc = "done"
    /\ report.totalTransactions > 0
    /\ \E i, j \in 1..Len(trades) : i < j /\ trades[i].timestamp > trades[j].timestamp
    /\ \E i, j \in 1..Len(trades) : i < j /\ trades[i].timestamp = trades[j].timestamp
    /\ \E p \in Orders(Len(trades)) :
          /\ KeepsTies(trades, p)
          /\ Permuted(trades, p) # trades

\* the places in the input of the records that normalizeTrade keeps
WellFormedPlaces == {i \in 1..Len(trades) : NormalizeTrade(trades[i]) # Null}

\* C13 (processing order).  The loop runs over the well-formed records in
\* non-decreasing timestamp order, records of equal timestamp in the order of
\* the input; the entries of the sells follow that order; and a SELL is matched
\* with a lot bought at its own timestamp only if the BUY stands before the
\* SELL in the input.
ProcessingOrder ==
    pc # "start" =>
        /\ {normalized[p].transactionHash : p \in 1..Len(normalized)} = WellFormedPlaces
        /\ Len(normalized) = Cardinality(WellFormedPlaces)
        /\ \A p, q \in 1..Len(normalized) :
              p < q =>
                  /\ normalized[p].timestamp <= normalized[q].timestamp
                  /\ normalized[p].timestamp = normalized[q].timestamp
                        => normalized[p].transactionHash < normalized[q].transactionHash
        /\ \A i, j \in LogIndexes("lot") \cup LogIndexes("oversell") :
              i < j => PlaceOf(matchLog[i].sell) <= PlaceOf(matchLog[j].sell)
        /\ \A i \in LogIndexes("lot") :
              /\ PlaceOf(matchLog[i].lot) < PlaceOf(matchLog[i].sell)
              /\ matchLog[i].acquired = matchLog[i].disposed
                    => matchLog[i].lot < matchLog[i].sell

\* the loop has run over an input whose later records have the earlier
\* timestamps, with a SELL standing before a BUY of its key and timestamp: the
\* SELL was oversold and the lot of the BUY is whole
ProcessingOrderReached ==
    /\ AfterLoop
    /\ \E i, j \in 1..Len(trades) : i < j /\ trades[i].timestamp > trades[j].timestamp
    /\ \E i, j \in WellFormedPlaces :
          /\ i < j
          /\ trades[i].side = "SELL" /\ trades[j].side = "BUY"
          /\ trades[i].type = "TRADE" /\ trades[j].type = "TRADE"
          /\ trades[i].timestamp = trades[j].timestamp
          /\ KeyOf(trades[i]) = KeyOf(trades[j])
          /\ trades[j].size > 0
          /\ \E k \in LogIndexes("oversell") : matchLog[k].sell = i
          /\ \E l \in 1..Len(GetQueue(inventory, KeyOf(trades[j]))) :
                /\ GetQueue(inventory, KeyOf(trades[j]))[l].transactionHash = j
                /\ GetQueue(inventory, KeyOf(trades[j]))[l].quantity = trades[j].size

\* a record without a market identifier or without an outcome label
Malformed(trade) == trade.conditionId = <<>> \/ trade.outcome = <<>>

MalformedPlaces == {i \in 1..Len(trades) : Malformed(trades[i])}

\* ts less its i-th record
Without(ts, i) == SubSeq(ts, 1, i - 1) \o SubSeq(ts, i + 1, Len(ts))

\* C14 (malformed records).  The call returns for an input that holds
\* malformed records; the loop never sees one, so that no lot, no entry and no
\* warning comes of one; and the report is the report of the input less any one
\* of its malformed records.
MalformedDropped ==
    /\ pc # "start" =>
          \A p \in 1..Len(normalized) : normalized[p].transactionHash \notin MalformedPlaces
    /\ \A i \in 1..Len(matchLog) :
          matchLog[i].sell \notin MalformedPlaces /\ matchLog[i].lot \notin MalformedPlaces
    /\ \A k \in 1..Len(inventory) : \A l \in 1..Len(inventory[k].lots) :
          inventory[k].lots[l].transactionHash \notin MalformedPlaces
    /\ Len(warnings) = Cardinality(LogIndexes("oversell"))
    /\ pc = "done" =>
          \A i \in MalformedPlaces :
              report = GenerateTaxReport(Without(trades, i), taxYear, marketMap)

\* a report with an entry for an input that holds a record without a market
\* identifier and a record without an outcome label
MalformedDroppedReached ==
    /\ pc = "done"
    /\ report.totalTransactions > 0
    /\ \E i, j \in 1..Len(trades) :
          /\ trades[i].conditionId = <<>> /\ trades[i].outcome # <<>>
          /\ trades[j].outcome = <<>> /\ trades[j].conditionId # <<>>

\* the places in the input of the redemptions that are well formed
RedeemPlaces ==
    {i \in 1..Len(trades) : trades[i].type = "REDEEM" /\ ~Malformed(trades[i])}

\* quantity units at 1.0 dollar a token, in cents
AtPar(quantity) == Frac(quantity * 100, UnitsPerToken)

\* C15 (redemption normalization).  Every well-formed REDEEM record is
\* processed as a SELL of its quantity whose notional is the quantity (in
\* dollars) and whose price is 1.0, whatever side, notional and price the
\* record carries; each entry of a redemption has proceeds of 1.0 a token,
\* round(matched quantity) for a lot and round(remainder) with no cost basis
\* for an oversell; and a redemption is matched with a lot only when every lot
\* bought before it for the key has been emptied.
RedemptionNormalization ==
    pc # "start" =>
        /\ \A i \in RedeemPlaces :
              LET trade == normalized[PlaceOf(i)]
              IN /\ \E p \in 1..Len(normalized) : normalized[p].transactionHash = i
                 /\ trade.side = "SELL"
                 /\ trade.size = trades[i].size
                 /\ trade.usdcSize = AtPar(trades[i].size)
                 /\ trade.price = Frac(1, 1)
        /\ \A i \in 1..Len(matchLog) :
              matchLog[i].sell \in RedeemPlaces =>
                  /\ entries[i].proceeds = MathRound(AtPar(matchLog[i].qty))
                  /\ matchLog[i].kind = "lot" =>
                        /\ PlaceOf(matchLog[i].lot) < PlaceOf(matchLog[i].sell)
                        /\ \A p \in 1..(PlaceOf(matchLog[i].lot) - 1) :
                              (/\ normalized[p].side = "BUY"
                               /\ KeyOf(normalized[p]) = matchLog[i].key)
                              => \E j \in 1..(i - 1) :
                                     /\ matchLog[j].kind = "lot"
                                     /\ matchLog[j].lot = normalized[p].transactionHash
                                     /\ matchLog[j].left < Epsilon
                  /\ matchLog[i].kind = "oversell" =>
                        entries[i].costBasis = 0 /\ entries[i].gainLoss = entries[i].proceeds

\* a redemption of 7 tokens that carries the side BUY, a notional of 3.00 and
\* a price of 0.25 has been matched with a lot of 10 tokens: proceeds 7.00
RedemptionNormalizationReached ==
    \E i \in LogIndexes("lot") :
        /\ matchLog[i].sell \in RedeemPlaces
        /\ trades[matchLog[i].sell].side = "BUY"
        /\ trades[matchLog[i].sell].usdcSize = Cents(300)
        /\ trades[matchLog[i].sell].price = Frac(1, 4)
        /\ matchLog[i].qty = Tok(7)
        /\ entries[i].proceeds = 700

AllLots ==
    UNION {{inventory[k].lots[l] : l \in 1..Len(inventory[k].lots)} : k \in 1..Len(inventory)}

\* C16 (zero-quantity guard), as stated: no trade of quantity zero is in the
\* array the loop runs over, no lot has a non-finite cost per token and no
\* entry has an amount that is not a number.
ZeroQuantityGuard ==
    /\ \A p \in 1..Len(normalized) : normalized[p].size # 0
    /\ \A lot \in AllLots : IsFinite(lot.costBasisPerToken)
    /\ \A i \in 1..Len(entries) : entries[i].notANumber = {}

ZeroLotReached == \E lot \in AllLots : ~IsFinite(lot.costBasisPerToken)

ZeroEntryReached == \E i \in 1..Len(entries) : entries[i].notANumber # {}

\* f, a finite fraction, rounded to the nearest integer, a half away from zero
RoundHalfAway(f) == Sign(f.n) * ((2 * Abs(f.n) + f.d) \div (2 * f.d))

\* the proceeds, the cost basis and the gain of the match of matchLog[i],
\* before rounding
Unrounded(i) ==
    LET sell == normalized[PlaceOf(matchLog[i].sell)]
        buy == normalized[PlaceOf(matchLog[i].lot)]
        proceeds == MulF(matchLog[i].qty, DivF(sell.usdcSize, sell.size))
        costBasis == MulF(matchLog[i].qty, DivF(buy.usdcSize, buy.size))
    IN [proceeds |-> proceeds, costBasis |-> costBasis,
        gainLoss |-> SubF(proceeds, costBasis)]

\* C17 (rounding mode), as stated: the proceeds, the cost basis and the gain
\* or loss of every entry of a lot are the unrounded amounts rounded to the
\* cent, a half cent away from zero, negative amounts as well as positive.
RoundingHalfAwayFromZero ==
    \A i \in LogIndexes("lot") :
        \A k \in {"proceeds", "costBasis", "gainLoss"} :
            IsFinite(Unrounded(i)[k]) => entries[i][k] = RoundHalfAway(Unrounded(i)[k])

\* C18 (grand total and partition totals).  In the returned report
\* totalGainLoss differs from shortTermSummary.totalGainLoss +
\* longTermSummary.totalGainLoss by one cent at most.
GrandTotalWithinCent ==
    pc = "done" =>
        Abs(report.totalGainLoss
            - (report.shortTermSummary.totalGainLoss
               + report.longTermSummary.totalGainLoss)) <= 1

\* a report whose short-term and long-term totals are gains or losses of more
\* than a cent
GrandTotalWithinCentReached ==
    /\ pc = "done"
    /\ Abs(report.shortTermSummary.totalGainLoss) > 1
    /\ Abs(report.longTermSummary.totalGainLoss) > 1
    /\ report.totalGainLoss # report.shortTermSummary.totalGainLoss

\* C19 (one warning for each oversell).  There are as many warnings as
\* oversold SELL trades; the k-th warning is that of the k-th oversold SELL in
\* processing order, with its key and the quantity left unmatched; a SELL is
\* oversold once at most; and the report returns these warnings.
OneWarningPerOversell ==
    /\ Len(warnings) = Cardinality(LogIndexes("oversell"))
    /\ \A k \in 1..Len(warnings) :
          LET i == Nth(LogIndexes("oversell"), k)
          IN /\ warnings[k] = Warning(matchLog[i].qty, matchLog[i].key)
             /\ PlaceOf(matchLog[i].sell) < idx
             /\ normalized[PlaceOf(matchLog[i].sell)].side = "SELL"
    /\ \A i, j \in LogIndexes("oversell") :
          /\ matchLog[i].sell = matchLog[j].sell => i = j
          /\ i < j => PlaceOf(matchLog[i].sell) < PlaceOf(matchLog[j].sell)
    /\ pc = "done" => report.warnings = warnings

\* a report with three warnings, two of one key and one of another
OneWarningPerOversellReached ==
    /\ pc = "done"
    /\ Len(report.warnings) = 3
    /\ \E a, b, c \in 1..3 :
          /\ a < b
          /\ report.warnings[a].key = report.warnings[b].key
          /\ report.warnings[c].key # report.warnings[a].key

\* the lookup of the market of the position returned nothing
LookupFailed(position) == position.conditionId \notin DOMAIN marketMap

\* C20 (resolver failure tolerance).  Whatever lookups fail, the resolver step
\* can be taken; after it a position whose market has no entry in the map has
\* no write-off entry and is listed in the openPositions of the report, and a
\* position whose market has an entry is written off exactly when the market
\* is closed with a winner other than the outcome of the position.
ResolverFailureTolerance ==
    /\ pc = "resolve" => ENABLED Resolve
    /\ AfterResolve =>
          \A m \in 1..Len(openPositions) :
              LET position == openPositions[m]
              IN /\ LookupFailed(position) =>
                       /\ ~WrittenOff(position)
                       /\ pc = "done" =>
                             \E k \in 1..Len(report.openPositions) :
                                 report.openPositions[k] = position
                 /\ ~LookupFailed(position) =>
                       (WrittenOff(position) <=> LostMarket(position))

\* a report for positions in two markets: the lookup of one failed, and the
\* position of the other is written off
ResolverFailureToleranceReached ==
    /\ pc = "done"
    /\ \E m, n \in 1..Len(openPositions) :
          /\ LookupFailed(openPositions[m])
          /\ ~LookupFailed(openPositions[n])
          /\ WrittenOff(openPositions[n])
          /\ ~WrittenOff(openPositions[m])

\* the number of lookups of the id
LookupsOf(id) == Cardinality({i \in 1..Len(lookups) : lookups[i] = id})

\* C21 (lookup deduplication).  The resolver step calls fetchMarket once for
\* each market id that an open position has, and for no other id, however
\* many open positions have the id; no other step calls it.
LookupDeduplication ==
    /\ ~AfterResolve => lookups = <<>>
    /\ AfterResolve =>
          /\ \A m \in 1..Len(openPositions) : LookupsOf(openPositions[m].conditionId) = 1
          /\ \A i \in 1..Len(lookups) :
                \E m \in 1..Len(openPositions) : openPositions[m].conditionId = lookups[i]
          /\ DOMAIN marketMap \subseteq {lookups[i] : i \in 1..Len(lookups)}

\* the resolver step has run for three open positions, two of one market
LookupDeduplicationReached ==
    /\ AfterResolve
    /\ Len(openPositions) = 3
    /\ Len(lookups) = 2
    /\ \E m, n \in 1..3 :
          /\ m # n
          /\ openPositions[m].conditionId = openPositions[n].conditionId

\* C22 (position key uniqueness), as stated: two trades have the same key,
\* and so the same lot queue, exactly when they have the same conditionId and
\* the same outcome; the conditionId and the outcome of an OpenPosition are
\* those of the trades of its lots; and every lookup is for the conditionId
\* of a trade.
PositionKeyUniqueness ==
    /\ \A p, q \in 1..Len(normalized) :
          KeyOf(normalized[p]) = KeyOf(normalized[q])
          <=> (/\ normalized[p].conditionId = normalized[q].conditionId
               /\ normalized[p].outcome = normalized[q].outcome)
    /\ \A m \in 1..Len(openPositions) : \A l \in 1..Len(openPositions[m].lots) :
          LET trade == trades[openPositions[m].lots[l].transactionHash]
          IN /\ openPositions[m].conditionId = trade.conditionId
             /\ openPositions[m].outcome = trade.outcome
    /\ \A i \in 1..Len(lookups) :
          \E p \in 1..Len(normalized) : normalized[p].conditionId = lookups[i]

\* the sum over the lots of remaining quantity x cost per token
RECURSIVE RemainingCost(_)
RemainingCost(lots) ==
    IF Len(lots) = 0 THEN Cents(0)
    ELSE AddF(RemainingCost(SubSeq(lots, 1, Len(lots) - 1)),
              MulF(lots[Len(lots)].quantity, lots[Len(lots)].costBasisPerToken))

\* C23 (OpenPosition aggregates), as stated: the quantity of every
\* OpenPosition is the sum of the remaining quantities of its lots, and its
\* costBasis the sum of remaining quantity x cost per token of its lots.
OpenPositionAggregates ==
    \A m \in 1..Len(openPositions) :
        /\ openPositions[m].quantity
               = SumOver(1..Len(openPositions[m].lots),
                         LAMBDA l : openPositions[m].lots[l].quantity)
        /\ openPositions[m].costBasis = RemainingCost(openPositions[m].lots)

\* queue2 is queue less some lots of its head, the lot now at the head with
\* the quantity it had or less, and nothing else changed
ConsumedFromHead(queue, queue2) ==
    LET d == Len(queue) - Len(queue2)
    IN /\ d >= 0
       /\ \A i \in 2..Len(queue2) : queue2[i] = queue[i + d]
       /\ Len(queue2) > 0 =>
             /\ queue2[1] = [queue[1 + d] EXCEPT !.quantity = queue2[1].quantity]
             /\ queue2[1].quantity <= queue[1 + d].quantity

\* what a step of generateTaxReport may do to the lots
LotStep ==
    /\ Len(inventory') >= Len(inventory)
    /\ \A k \in 1..Len(inventory) :
          /\ inventory'[k].key = inventory[k].key
          /\ \/ inventory'[k].lots = inventory[k].lots
             \/ /\ pc = "loop" /\ normalized[idx].side = "BUY"
                /\ KeyOf(normalized[idx]) = inventory[k].key
                /\ Len(inventory'[k].lots) = Len(inventory[k].lots) + 1
                /\ SubSeq(inventory'[k].lots, 1, Len(inventory[k].lots)) = inventory[k].lots
             \/ /\ pc = "loop" /\ normalized[idx].side = "SELL"
                /\ KeyOf(normalized[idx]) = inventory[k].key
                /\ ConsumedFromHead(inventory[k].lots, inventory'[k].lots)
    /\ \A k \in (Len(inventory) + 1)..Len(inventory') :
          /\ pc = "loop" /\ normalized[idx].side = "BUY"
          /\ KeyOf(normalized[idx]) = inventory'[k].key
          /\ Len(inventory'[k].lots) = 1
    /\ \A k \in 1..Len(inventory') : \A l \in 1..Len(inventory'[k].lots) :
          LET lot == inventory'[k].lots[l]
          IN /\ lot.quantity >= 0
             /\ lot.quantity <= trades[lot.transactionHash].size
             /\ lot.acquisitionDate = trades[lot.transactionHash].timestamp
             /\ lot.costBasisPerToken = DivF(trades[lot.transactionHash].usdcSize,
                                             trades[lot.transactionHash].size)

\* C24 (lot invariants).  In every step each queue stays as it is, or gets
\* one lot at its tail for a BUY of its key, or loses lots at its head for a
\* SELL of its key, the lot left at the head keeping or lowering its quantity;
\* no other lot changes; and every lot has a quantity between 0 and the
\* quantity of its BUY, the timestamp of its BUY and the unit cost of its BUY.
LotInvariants == [][LotStep]_vars

\* a queue of two lots whose head has been consumed in part: the second lot
\* was put behind it
LotInvariantsReached ==
    \E k \in 1..Len(inventory) :
        /\ Len(inventory[k].lots) = 2
        /\ inventory[k].lots[1].quantity > 0
        /\ inventory[k].lots[1].quantity < trades[inventory[k].lots[1].transactionHash].size
        /\ inventory[k].lots[2].quantity = trades[inventory[k].lots[2].transactionHash].size

\* C25 (negligible lots are removed), as stated: once the loop has begun no
\* queue holds a lot of less than the epsilon, and every lot of an
\* OpenPosition has at least the epsilon.
NoNegligibleLot ==
    /\ \A lot \in AllLots : lot.quantity >= Epsilon
    /\ \A m \in 1..Len(openPositions) : \A l \in 1..Len(openPositions[m].lots) :
          openPositions[m].lots[l].quantity >= Epsilon

Ellipsis == <<".", ".", ".">>

\* where the claim cuts a title of more than TitleMaxLen characters: at the
\* last space among its first TitleMaxLen - 3 characters when the index
\* (0-based) of that space is past half of TitleMaxLen, else at TitleMaxLen - 3
CutPoint(title) ==
    LET spaces == {i \in 0..(TitleMaxLen - 4) : title[i + 1] = " "}
        last == CHOOSE i \in spaces : \A j \in spaces : j <= i
    IN IF spaces # {} /\ 2 * last > TitleMaxLen THEN last ELSE TitleMaxLen - 3

\* s less the spaces at its two ends
WithoutOuterSpaces(s) ==
    LET solid == {i \in 1..Len(s) : s[i] # " "}
    IN IF solid = {} THEN <<>>
       ELSE SubSeq(s, CHOOSE i \in solid : \A j \in solid : i <= j,
                      CHOOSE i \in solid : \A j \in solid : i >= j)

IsPrefix(s, t) == Len(s) <= Len(t) /\ SubSeq(t, 1, Len(s)) = s

\* the entries of the SELLs, and the title of the SELL of each
SellEntries == LogIndexes("lot") \cup LogIndexes("oversell")

TitleOfEntry(i) == trades[matchLog[i].sell].title

\* C26 (title truncation), as stated: a title of at most TitleMaxLen
\* characters is used as it is; a longer one is cut at CutPoint and "..." is
\* put after; the result has at most TitleMaxLen characters and is a prefix of
\* the title followed by "...".
TruncationAtCutPoint ==
    \A i \in SellEntries :
        LET title == TitleOfEntry(i)
            shown == entries[i].description.title
        IN IF Len(title) <= TitleMaxLen THEN shown = title
           ELSE /\ shown = SubSeq(title, 1, CutPoint(title)) \o Ellipsis
                /\ Len(shown) <= TitleMaxLen
                /\ IsPrefix(SubSeq(shown, 1, Len(shown) - 3), title)

\* C26 amended: a title of at most TitleMaxLen characters is used as it is; a
\* longer one is cut at CutPoint, the spaces at the two ends of what is kept
\* are taken away, and "..." is put after; the result has at most TitleMaxLen
\* characters and, when the title does not begin with a space, is a prefix of
\* the title followed by "...".
TruncationTrimmed ==
    \A i \in SellEntries :
        LET title == TitleOfEntry(i)
            shown == entries[i].description.title
        IN IF Len(title) <= TitleMaxLen THEN shown = title
           ELSE /\ shown = WithoutOuterSpaces(SubSeq(title, 1, CutPoint(title))) \o Ellipsis
                /\ Len(shown) <= TitleMaxLen
                /\ title[1] # " " => IsPrefix(SubSeq(shown, 1, Len(shown) - 3), title)

\* two entries with titles of 60 characters: one begins with a space and is
\* shown without it, cut at 52; the other has its one space at index 40 and is
\* cut there
TruncationTrimmedReached ==
    \E i, j \in SellEntries :
        /\ Len(TitleOfEntry(i)) = TitleMaxLen + 5 /\ TitleOfEntry(i)[1] = " "
        /\ Len(entries[i].description.title) = TitleMaxLen - 1
        /\ entries[i].description.title[1] = "x"
        /\ Len(TitleOfEntry(j)) = TitleMaxLen + 5 /\ TitleOfEntry(j)[41] = " "
        /\ Len(entries[j].description.title) = 43

\* the price (dollars a token) is the notional (cents) over the quantity
\* (units): price x quantity x 100 = notional x UnitsPerToken
IsNotionalOverQuantity(price, trade) ==
    MulF(100 * trade.size, price) = MulF(UnitsPerToken, trade.usdcSize)

\* C27 (price derivation).  Every record that is not a redemption is
\* processed with the fields it has in the input, but for the price: the price
\* of the input when that is not zero, else notional / quantity.
PriceDerivation ==
    pc # "start" =>
        \A p \in 1..Len(normalized) :
            LET raw == trades[normalized[p].transactionHash]
            IN raw.type # "REDEEM" =>
                   /\ normalized[p] = [raw EXCEPT !.price = normalized[p].price]
                   /\ raw.price # NoPrice => normalized[p].price = raw.price
                   /\ raw.price = NoPrice =>
                          IsNotionalOverQuantity(normalized[p].price, raw)

\* the loop runs over a record that came with the price 0.55 for a notional
\* of 1.00 and a quantity of 2, and over a record that came without a price
\* and has the price 0.50
PriceDerivationReached ==
    /\ pc = "loop"
    /\ \E p, q \in 1..Len(normalized) :
          /\ trades[normalized[p].transactionHash].price = Frac(11, 20)
          /\ normalized[p].usdcSize = Cents(100) /\ normalized[p].size = Tok(2)
          /\ normalized[p].price = Frac(11, 20)
          /\ trades[normalized[q].transactionHash].price = NoPrice
          /\ normalized[q].price = Frac(1, 2)

\* C28 (statelessness between runs).  The array and its records stay as the
\* caller passed them; a call begins with an empty inventory and without
\* entries or warnings, whatever the calls before it left; the report of every
\* call, the first or a later one, is the report of generateTaxReport for its
\* arguments and the answers of the resolver alone; and so is the report of a
\* call made while another awaits the resolver, which changes nothing of the
\* call that awaits.
Statelessness ==
    /\ trades = given
    /\ pc = "start" => inventory = <<>> /\ entries = <<>> /\ warnings = <<>>
    /\ pc = "done" => report = GenerateTaxReport(given, taxYear, marketMap)
    /\ other # Null =>
          other.report = GenerateTaxReport(other.trades, other.taxYear, other.marketMap)

\* the second call has returned: the call before it left a lot of market 1
\* open, this one sold 5 tokens of market 1 and was oversold; and a call made
\* while it awaited the resolver sold 5 tokens of market 1 and was oversold
StatelessnessReached ==
    /\ pc = "done"
    /\ calls = 2
    /\ PositionKey(Market1, Yes) \in previous
    /\ \E w \in 1..Len(report.warnings) :
          /\ report.warnings[w].key = PositionKey(Market1, Yes)
          /\ report.warnings[w].remaining = Tok(5)
    /\ other # Null
    /\ Len(other.report.warnings) = 1

-----------------------------------------------------------------------------
(* Form 8949 in detailed mode *)

\* IRS Form 8949 holds 14 transactions per page (main.ts:150, pdf.ts:9)
TRANSACTIONS_PER_PAGE == 14

\* Math.ceil(n / d), n >= 0 and d > 0
Ceil(n, d) == (n + d - 1) \div d

\* Array.prototype.slice(start, end), 0 <= start <= end <= length
Slice(array, start, end) == SubSeq(array, start + 1, end)

\* the two pages of the template, no field written
TemplatePage(part) ==
    [part |-> part, rows |-> [row \in 1..TRANSACTIONS_PER_PAGE |-> Null],
     totals |-> Null, checked |-> FALSE]

Template == <<TemplatePage("Part1"), TemplatePage("Part2")>>

\* the rows written from the entries of a page, the others as they were; the
\* six fields of a row are written from one entry
FillRows(rows, pageEntries) ==
    [row \in 1..TRANSACTIONS_PER_PAGE |->
        IF row <= Len(pageEntries) THEN pageEntries[row] ELSE rows[row]]

\* fillPartIPage, fillPartIIPage: the page of a fresh template
FillPartPage(part, pageEntries, summary, isLastPage) ==
    [TemplatePage(part) EXCEPT
        !.checked = TRUE,
        !.rows = FillRows(@, pageEntries),
        !.totals = IF isLastPage THEN summary ELSE @]

\* the loop of generateDetailedMode of main.ts over the pages of one part
PartPages(part, partEntries, summary) ==
    LET pages == Ceil(Len(partEntries), TRANSACTIONS_PER_PAGE)
    IN  [page \in 1..pages |->
            LET pageIdx == page - 1
                start == pageIdx * TRANSACTIONS_PER_PAGE
                end == Min(start + TRANSACTIONS_PER_PAGE, Len(partEntries))
            IN  FillPartPage(part, Slice(partEntries, start, end), summary,
                             pageIdx = pages - 1)]

\* generateDetailedMode of main.ts: the pages added to mergedPdf
GenerateDetailedMode(r) ==
    (IF Len(r.shortTerm) > 0
        THEN PartPages("Part1", r.shortTerm, r.shortTermSummary) ELSE <<>>)
    \o (IF Len(r.longTerm) > 0
        THEN PartPages("Part2", r.longTerm, r.longTermSummary) ELSE <<>>)

\* what a page copied by copyPages shows of the fields set before the copy is
\* the library's doing: the values written so far, or the appearance of the
\* template, which is drawn anew only when the form is flattened
CopyOutcomes == {"values", "appearance"}

CopyPage(page, copied) ==
    IF copied = "values" THEN page ELSE TemplatePage(page.part)

\* fillDetailedPart of pdf.ts: every page of the part is written into the
\* fields of the one form, and a copy of the page is added after each page but
\* the last
RECURSIVE FillDetailedPart(_, _, _, _, _, _)
FillDetailedPart(doc, partEntries, summary, partName, pageIdx, copied) ==
    LET pageNum == IF partName = "Part1" THEN 0 ELSE 1
        pages == Ceil(Len(partEntries), TRANSACTIONS_PER_PAGE)
        start == pageIdx * TRANSACTIONS_PER_PAGE
        end == Min(start + TRANSACTIONS_PER_PAGE, Len(partEntries))
        filled == [doc[pageNum + 1] EXCEPT
                      !.checked = TRUE,
                      !.rows = FillRows(@, Slice(partEntries, start, end)),
                      !.totals = IF pageIdx = pages - 1 THEN summary ELSE @]
        written == [doc EXCEPT ![pageNum + 1] = filled]
        added == IF pageIdx < pages - 1
                    THEN Append(written, CopyPage(filled, copied)) ELSE written
    IN  IF pageIdx < pages
            THEN FillDetailedPart(added, partEntries, summary, partName,
                                  pageIdx + 1, copied)
            ELSE doc

\* generateDetailedMode of pdf.ts: the pages of the template document
PdfGenerateDetailedMode(r, copied) ==
    LET partI == IF Len(r.shortTerm) > 0
                    THEN FillDetailedPart(Template, r.shortTerm, r.shortTermSummary,
                                          "Part1", 0, copied)
                    ELSE Template
    IN  IF Len(r.longTerm) > 0
            THEN FillDetailedPart(partI, r.longTerm, r.longTermSummary,
                                  "Part2", 0, copied)
            ELSE partI

\* a report of the given numbers of entries; an entry stands for the six
\* texts its row shows
PartEntries(term, n) == [i \in 1..n |-> [term |-> term, place |-> i]]

Reports ==
    {[shortTerm |-> PartEntries("short", n), longTerm |-> PartEntries("long", m),
      shortTermSummary |-> [term |-> "short", entries |-> n],
      longTermSummary |-> [term |-> "long", entries |-> m]] :
        n \in 0..MaxPartEntries, m \in 0..MaxPartEntries}

DetailedMode ==
    /\ mergedPdf = Null
    /\ mergedPdf' = [pages |-> GenerateDetailedMode(report)]
    /\ UNCHANGED <<trades, taxYear, pc, normalized, idx, inventory, entries, warnings,
                   matchLog, openPositions, marketMap, lookups, report, given, calls,
                   previous, other, pdfDoc, batchVars, historyVars, uiVars>>

PdfDetailedMode ==
    /\ pdfDoc = Null
    /\ \E copied \in CopyOutcomes :
          pdfDoc' = [pages |-> PdfGenerateDetailedMode(report, copied)]
    /\ UNCHANGED <<trades, taxYear, pc, normalized, idx, inventory, entries, warnings,
                   matchLog, openPositions, marketMap, lookups, report, given, calls,
                   previous, other, mergedPdf, batchVars, historyVars, uiVars>>

NextPages == DetailedMode \/ PdfDetailedMode

\* the form is generated from a report that generateTaxReport has returned
InitPages ==
    /\ trades = <<>>
    /\ taxYear = 2024
    /\ pc = "done"
    /\ normalized = <<>>
    /\ idx = 1
    /\ inventory = <<>>
    /\ entries = <<>>
    /\ warnings = <<>>
    /\ matchLog = <<>>
    /\ openPositions = <<>>
    /\ marketMap = <<>>
    /\ lookups = <<>>
    /\ report \in Reports
    /\ given = trades
    /\ calls = 1
    /\ previous = {}
    /\ other = Null
    /\ mergedPdf = Null
    /\ pdfDoc = Null
    /\ BatchIdle
    /\ HistoryIdle
    /\ UiIdle

SpecPages == InitPages /\ [][NextPages]_vars

\* the pages of a part in a document, in the order of the document
PagesOfPart(doc, part) == SelectSeq(doc, LAMBDA page : page.part = part)

\* the pages of one part are those of the claim: ceil(n / 14) pages, page k
\* with the entries 14k .. min(14k + 13, n - 1) in its first rows and nothing
\* in the others, the totals on the last page and on no other
PartPaginated(doc, part, partEntries, summary) ==
    LET shown == PagesOfPart(doc, part)
        n == Len(partEntries)
    IN  /\ Len(shown) = Ceil(n, TRANSACTIONS_PER_PAGE)
        /\ \A k \in 1..Len(shown) :
              /\ \A row \in 1..TRANSACTIONS_PER_PAGE :
                    LET place == (k - 1) * TRANSACTIONS_PER_PAGE + row
                    IN  shown[k].rows[row] =
                            IF place <= n THEN partEntries[place] ELSE Null
              /\ shown[k].totals = IF k = Len(shown) THEN summary ELSE Null

Paginated(doc, r) ==
    /\ PartPaginated(doc, "Part1", r.shortTerm, r.shortTermSummary)
    /\ PartPaginated(doc, "Part2", r.longTerm, r.longTermSummary)

\* C29 (detailed-mode pagination): a part of n > 0 entries has ceil(n / 14)
\* pages in the output, page k shows the entries 14k .. min(14k + 13, n - 1)
\* in report order, so that every entry is on exactly one page and no page
\* holds more than 14, the totals of the part are on its last page only, and
\* a part without entries has no page
DetailedPagination ==
    /\ mergedPdf # Null => Paginated(mergedPdf.pages, report)
    /\ pdfDoc # Null => Paginated(pdfDoc.pages, report)

\* the same of the document that generateDetailedMode of main.ts builds
MergedPagination == mergedPdf # Null => Paginated(mergedPdf.pages, report)

MergedPaginationReached ==
    /\ mergedPdf # Null
    /\ Len(report.shortTerm) = 2 * TRANSACTIONS_PER_PAGE + 1
    /\ Len(report.longTerm) = 0
    /\ Len(mergedPdf.pages) = 3

-----------------------------------------------------------------------------
(* Position keys are independent of one another *)

\* the array with the trades at j and j + 1 exchanged
Exchanged(array, j) ==
    [i \in 1..Len(array) |->
        IF i = j THEN array[j + 1] ELSE IF i = j + 1 THEN array[j] ELSE array[i]]

\* how often x is in the array
Count(array, x) == Cardinality({i \in 1..Len(array) : array[i] = x})

SameMultiset(a, b) ==
    /\ Len(a) = Len(b)
    /\ \A i \in 1..Len(a) : Count(a, a[i]) = Count(b, a[i])

\* the map without the order its keys were inserted in
AsMapping(inv) == {inv[i] : i \in 1..Len(inv)}

\* the places j of normalized whose trade and the next are on different keys
DifferentKeyPlaces ==
    {j \in 1..(Len(normalized) - 1) : KeyOf(normalized[j]) # KeyOf(normalized[j + 1])}

LoopDone == pc = "loop" /\ idx > Len(normalized)

\* with two adjacent trades of different keys exchanged the loop leaves the
\* same map, the same entries and the same warnings, up to their order
ExchangeKeepsOutcome ==
    LoopDone =>
        \A j \in DifferentKeyPlaces :
            LET exchanged == ProcessTrades(Exchanged(normalized, j), Len(normalized))
            IN  /\ AsMapping(exchanged.inventory) = AsMapping(inventory)
                /\ SameMultiset(exchanged.entries, entries)
                /\ SameMultiset(exchanged.warnings, warnings)

\* an iteration of the loop leaves the queue of every key but its trade's
OtherQueuesKept ==
    (pc = "loop" /\ idx' = idx + 1) =>
        \A i \in 1..Len(inventory) :
            inventory[i].key # KeyOf(normalized[idx]) =>
                GetQueue(inventory', inventory[i].key) = inventory[i].lots

\* C30 (independence of position keys): processing a trade on a key leaves
\* the lot queue of every other key unchanged, and exchanging two adjacent
\* trades of different keys in the processing order gives the same final
\* inventory, the same multiset of entries and the same multiset of warnings
KeyIndependence == [][OtherQueuesKept]_vars /\ []ExchangeKeepsOutcome

\* a SELL that consumed a lot of its key next to a trade of another key,
\* while a lot of that other key is in the map
KeyIndependenceReached ==
    /\ LoopDone
    /\ \E j \in DifferentKeyPlaces :
          /\ normalized[j].side = "BUY"
          /\ normalized[j + 1].side = "SELL"
          /\ HasKey(inventory, KeyOf(normalized[j]))
          /\ \E e \in 1..Len(entries) :
                /\ matchLog[e].sell = normalized[j + 1].transactionHash
                /\ matchLog[e].kind = "lot"

-----------------------------------------------------------------------------
(* Trades of one key in any order of time *)

\* the same call on the arrays of LaterUniverse
InitLater ==
    /\ trades \in TradeArrays(LaterUniverse, MaxLaterTrades)
    /\ taxYear = 2024
    /\ pc = "start"
    /\ normalized = <<>>
    /\ idx = 1
    /\ inventory = <<>>
    /\ entries = <<>>
    /\ warnings = <<>>
    /\ matchLog = <<>>
    /\ openPositions = <<>>
    /\ marketMap = <<>>
    /\ lookups = <<>>
    /\ report = Null
    /\ given = trades
    /\ calls = 1
    /\ previous = {}
    /\ other = Null
    /\ mergedPdf = Null
    /\ pdfDoc = Null
    /\ BatchIdle
    /\ HistoryIdle
    /\ UiIdle

SpecLater == InitLater /\ [][Next]_vars

\* C33 (non-negative holding period): whatever the order of the input array,
\* an entry matched against a lot has a disposal timestamp not before the
\* lot's acquisition timestamp, and holdingDays >= 0
NonNegativeHolding ==
    \A i \in LogIndexes("lot") :
        /\ matchLog[i].disposed = given[matchLog[i].sell].timestamp
        /\ matchLog[i].acquired = given[matchLog[i].lot].timestamp
        /\ matchLog[i].disposed >= matchLog[i].acquired
        /\ entries[i].holdingDays = HoldingDays(matchLog[i].disposed, matchLog[i].acquired)
        /\ entries[i].holdingDays >= 0

\* a SELL that stands before its BUY in the input and after it in time is
\* matched with it, and a SELL earlier than that BUY is not
NonNegativeHoldingReached ==
    /\ AfterLoop
    /\ \E s, b, e \in 1..Len(given) :
          /\ s < b /\ given[s].side = "SELL" /\ given[b].side = "BUY"
          /\ given[s].timestamp > given[b].timestamp
          /\ given[e].side = "SELL" /\ given[e].timestamp < given[b].timestamp
          /\ \E i \in LogIndexes("lot") : matchLog[i].sell = s /\ matchLog[i].lot = b
          /\ \E i \in LogIndexes("oversell") : matchLog[i].sell = e

\* the quantity the lot matches of the log took from the lot of the BUY at
\* place b of the input
TakenFrom(b) ==
    SumOver({i \in LogIndexes("lot") : matchLog[i].lot = b}, LAMBDA i : matchLog[i].qty)

\* the quantity oversold so far on a key
Oversold(key) ==
    SumOver({i \in LogIndexes("oversell") : matchLog[i].key = key},
            LAMBDA i : matchLog[i].qty)

\* a SELL that is oversold leaves the queue of its key empty
OversoldLeavesEmpty ==
    (SellStep /\ Len(warnings') > Len(warnings)) =>
        GetQueue(inventory', KeyOf(normalized[idx])) = <<>>

\* a BUY appends a lot of its whole quantity, whatever was oversold before
BuyAppendsWhole ==
    (pc = "loop" /\ idx <= Len(normalized) /\ normalized[idx].side = "BUY"
        /\ idx' = idx + 1) =>
        LET key == KeyOf(normalized[idx])
            queue == GetQueue(inventory', key)
        IN  /\ Len(queue) = Len(GetQueue(inventory, key)) + 1
            /\ queue[Len(queue)].quantity = normalized[idx].size
            /\ queue[Len(queue)].transactionHash = normalized[idx].transactionHash

\* a lot holds what its BUY bought less what later SELLs were matched with
OpenUntilSold ==
    \A k \in 1..Len(inventory) :
        \A l \in 1..Len(inventory[k].lots) :
            LET lot == inventory[k].lots[l]
            IN  /\ lot.quantity = given[lot.transactionHash].size
                                     - TakenFrom(lot.transactionHash)
                /\ lot.quantity > 0

\* C34 (oversells are not carried forward): right after an oversold SELL the
\* queue of its key is empty; a later BUY of the key makes a lot of its whole
\* quantity, nothing of the oversold remainder being set against it, and the
\* lot stays open until later SELLs consume it
OversellNotCarried ==
    [][OversoldLeavesEmpty /\ BuyAppendsWhole]_vars /\ []OpenUntilSold

\* a SELL was oversold, a later BUY of the key made a lot, a SELL after it
\* took a part of that lot and the rest of the lot is open
OversellNotCarriedReached ==
    /\ AfterLoop
    /\ \E k \in 1..Len(inventory) :
          /\ Oversold(inventory[k].key) > 0
          /\ \E l \in 1..Len(inventory[k].lots) :
                LET lot == inventory[k].lots[l]
                IN  /\ TakenFrom(lot.transactionHash) > 0
                    /\ lot.quantity < given[lot.transactionHash].size
                    /\ \E i \in LogIndexes("oversell") :
                          /\ matchLog[i].key = inventory[k].key
                          /\ matchLog[i].disposed < lot.acquisitionDate

-----------------------------------------------------------------------------
(* The proceeds of a SELL over its entries *)

\* the sum of the fractions f[x] over the x of set
RECURSIVE SumFracOver(_, _)
SumFracOver(set, f) ==
    IF set = {} THEN Cents(0)
    ELSE LET x == CHOOSE y \in set : TRUE IN AddF(f[x], SumFracOver(set \ {x}, f))

\* a <= b, for fractions
LeqF(a, b) == SubF(b, a).n >= 0

AbsF(a) == [n |-> Abs(a.n), d |-> a.d]

\* the SELLs the loop has processed, by their places in the input
SellsProcessed ==
    {normalized[p].transactionHash :
        p \in {q \in 1..Len(normalized) :
                  normalized[q].side = "SELL" /\ (q < idx \/ AfterLoop)}}

\* the entries of the SELL at place s of the input: lot matches and oversell
EntriesOf(s) ==
    {i \in LogIndexes("lot") \cup LogIndexes("oversell") : matchLog[i].sell = s}

QuantityOf(s) == SumOver(EntriesOf(s), LAMBDA i : matchLog[i].qty)

\* the proceeds of the entries of s before rounding, summed
UnroundedProceedsOf(s) ==
    SumFracOver(EntriesOf(s),
                [i \in EntriesOf(s) |->
                    MulF(matchLog[i].qty, ProceedsPerToken(given[s]))])

ReportedProceedsOf(s) == SumOver(EntriesOf(s), LAMBDA i : entries[i].proceeds)

\* what of the SELL's quantity is in none of its entries
Unreported(s) == given[s].size - QuantityOf(s)

-----------------------------------------------------------------------------
(* fetchMarketsBatch, lookup by lookup *)

\* const batchSize = 5
BatchSize == 5

\* the first n condition ids
Ids(n) == [i \in 1..n |-> i]

\* the arrays fetchMarketsBatch is called with: n ids, without repeats, each
\* twice, and with the first once more
IdArrays ==
    UNION { {Ids(n), Ids(n) \o Ids(n), Ids(n) \o Ids(Min(n, 1))} : n \in 0..MaxBatchIds }

\* what one fetchMarket call can end with: the market, a response that is not
\* OK, an exception
FetchOutcomes == {"market", "notOk", "throws"}

\* the MarketData of a condition id
MarketOf(id) == [closed |-> TRUE, tokens |-> <<Token(Yes, id % 2 = 0), Token(No, id % 2 = 1)>>]

\* fetchMarket: the market, null when the response is not OK or fetch throws
FetchMarket(id, outcome) == IF outcome = "market" THEN MarketOf(id) ELSE Null

\* the function f with f[x] = v
MapSet(f, x, v) == [y \in DOMAIN f \cup {x} |-> IF y = x THEN v ELSE f[y]]

\* a variant that goes on as soon as nothing or one lookup is left
PromiseAllButOne(pending) == Cardinality(pending) <= 1

\* await Promise.all(promises): every promise has settled
PromiseAll(pending) == pending = {}

\* batch.forEach: the truthy results are set in the map
RECURSIVE SetResults(_, _, _)
SetResults(map, batch, res) ==
    IF Len(batch) = 0 THEN map
    ELSE LET front == SetResults(map, SubSeq(batch, 1, Len(batch) - 1), res)
             id == batch[Len(batch)]
         IN  IF id \in DOMAIN res /\ res[id] # Null THEN MapSet(front, id, res[id])
             ELSE front

\* unique.slice(i, i + batchSize)
BatchAt(ids, i) == Slice(ids, i, Min(i + BatchSize, Len(ids)))

\* the body of the for loop up to the await: fetchMarket is called for every
\* id of the batch, each call sends its request
StartBatch ==
    /\ fetchPc = "loop"
    /\ batchAt < Len(unique)
    /\ inFlight' = inFlight \cup {BatchAt(unique, batchAt)[k] :
                                     k \in 1..Len(BatchAt(unique, batchAt))}
    /\ lookups' = lookups \o BatchAt(unique, batchAt)
    /\ results' = <<>>
    /\ fetchPc' = "await"
    /\ UNCHANGED <<unique, batchAt, building, answered, conditionIds>>
    /\ UNCHANGED <<trades, taxYear, pc, normalized, idx, inventory, entries, warnings,
                   matchLog, openPositions, marketMap, report, given, calls,
                   previous, other, mergedPdf, pdfDoc, historyVars, uiVars>>

\* one fetchMarket call settles
Settle ==
    /\ \E id \in inFlight :
          \E outcome \in FetchOutcomes :
              /\ results' = MapSet(results, id, FetchMarket(id, outcome))
              /\ answered' = MapSet(answered, id, FetchMarket(id, outcome))
              /\ inFlight' = inFlight \ {id}
    /\ UNCHANGED <<unique, batchAt, building, fetchPc, conditionIds>>
    /\ UNCHANGED <<reportVars, historyVars, uiVars>>

\* Promise.all has settled: the results are set in the map, and the loop
\* sleeps if a batch is left
AfterBatch ==
    /\ fetchPc = "await"
    /\ PromiseAll(inFlight)
    /\ building' = SetResults(building, BatchAt(unique, batchAt), results)
    /\ IF batchAt + BatchSize < Len(unique)
          THEN fetchPc' = "sleep" /\ batchAt' = batchAt
          ELSE fetchPc' = "loop" /\ batchAt' = batchAt + BatchSize
    /\ UNCHANGED <<unique, inFlight, results, answered, conditionIds>>
    /\ UNCHANGED <<reportVars, historyVars, uiVars>>

\* sleep(500) is over
Wake ==
    /\ fetchPc = "sleep"
    /\ fetchPc' = "loop"
    /\ batchAt' = batchAt + BatchSize
    /\ UNCHANGED <<unique, inFlight, results, building, answered, conditionIds>>
    /\ UNCHANGED <<reportVars, historyVars, uiVars>>

\* return marketMap: the caller has the map
ReturnBatch ==
    /\ fetchPc = "loop"
    /\ batchAt >= Len(unique)
    /\ marketMap' = building
    /\ fetchPc' = "returned"
    /\ UNCHANGED <<unique, batchAt, inFlight, results, building, answered, conditionIds>>
    /\ UNCHANGED <<trades, taxYear, pc, normalized, idx, inventory, entries, warnings,
                   matchLog, openPositions, lookups, report, given, calls,
                   previous, other, mergedPdf, pdfDoc, historyVars, uiVars>>

NextBatch == StartBatch \/ Settle \/ AfterBatch \/ Wake \/ ReturnBatch

\* generateTaxReport as it is when it calls fetchMarketsBatch (calculator.ts:195)
AtResolver ==
    /\ trades = <<>>
    /\ taxYear = 2024
    /\ pc = "resolve"
    /\ normalized = <<>>
    /\ idx = 1
    /\ inventory = <<>>
    /\ entries = <<>>
    /\ warnings = <<>>
    /\ matchLog = <<>>
    /\ openPositions = <<>>
    /\ marketMap = <<>>
    /\ lookups = <<>>
    /\ report = Null
    /\ given = trades
    /\ calls = 1
    /\ previous = {}
    /\ other = Null
    /\ mergedPdf = Null
    /\ pdfDoc = Null

\* fetchMarketsBatch(conditionIds) up to the loop
InitBatch ==
    /\ AtResolver
    /\ conditionIds \in IdArrays
    /\ unique = Unique(conditionIds)
    /\ batchAt = 0
    /\ inFlight = {}
    /\ results = <<>>
    /\ building = <<>>
    /\ answered = <<>>
    /\ fetchPc = "loop"
    /\ HistoryIdle
    /\ UiIdle

SpecBatch == InitBatch /\ [][NextBatch]_vars

\* the ids of an array
IdsOf(array) == {array[k] : k \in 1..Len(array)}

\* the batch (0-based) of the id at place k of lookups
BatchNo(k) == (k - 1) \div BatchSize

\* at no time are more than 5 lookups in flight, the lookups in flight are of
\* one batch, and no id is looked up twice
LookupsBounded ==
    /\ Cardinality(inFlight) <= BatchSize
    /\ \A j, k \in 1..Len(lookups) :
          /\ j # k => lookups[j] # lookups[k]
          /\ (lookups[j] \in inFlight /\ lookups[k] \in inFlight) => BatchNo(j) = BatchNo(k)
    /\ IdsOf(lookups) = inFlight \cup DOMAIN answered
    /\ IdsOf(lookups) \subseteq IdsOf(conditionIds)

\* the lookups of a batch start when every lookup before them has settled
BatchesInTurn ==
    lookups' # lookups =>
        /\ inFlight = {}
        /\ DOMAIN answered = IdsOf(lookups)
        /\ Len(lookups') <= Len(lookups) + BatchSize

\* the caller has the map when every distinct id has been looked up and has
\* settled: the map holds the ids whose lookup returned a market, with it
MapOfAnswers ==
    fetchPc = "returned" =>
        /\ inFlight = {}
        /\ IdsOf(lookups) = IdsOf(conditionIds)
        /\ DOMAIN answered = IdsOf(conditionIds)
        /\ DOMAIN marketMap = {id \in DOMAIN answered : answered[id] # Null}
        /\ \A id \in DOMAIN marketMap : marketMap[id] = answered[id]

\* C31 (bounded parallel lookups): fetchMarketsBatch never has more than 5
\* lookups in flight; the lookups of a batch start only after every lookup of
\* the batch before has completed; each distinct id is looked up exactly
\* once; the returned map holds exactly the ids whose lookup returned a
\* market, and the caller gets it only after all lookups are complete
BoundedParallelLookups ==
    []LookupsBounded /\ [][BatchesInTurn]_vars /\ []MapOfAnswers

\* an array with repeats that took two batches, a lookup that returned no
\* market and one that did, and the map returned
BoundedParallelLookupsReached ==
    /\ fetchPc = "returned"
    /\ Len(conditionIds) > Len(unique)
    /\ Len(unique) > BatchSize
    /\ \E id \in DOMAIN answered : answered[id] = Null
    /\ DOMAIN marketMap # {}

-----------------------------------------------------------------------------
(* enrichRedeemOutcomes *)

\* what fetchMarket returns to the enrichment: null, a market without tokens,
\* without a winner, with either outcome the winner, and with the winner
\* written in capitals
EnrichAnswers ==
    { Null,
      [closed |-> TRUE],
      [closed |-> FALSE, tokens |-> <<Token(Yes, FALSE), Token(No, FALSE)>>],
      [closed |-> TRUE, tokens |-> <<Token(Yes, TRUE), Token(No, FALSE)>>],
      [closed |-> TRUE, tokens |-> <<Token(Yes, FALSE), Token(No, TRUE)>>],
      [closed |-> TRUE, tokens |-> <<Token(<<"YES">>, TRUE), Token(<<"NO">>, FALSE)>>] }

\* trade.type === 'REDEEM' && !trade.outcome
NeedsOutcome(trade) == trade.type = "REDEEM" /\ trade.outcome = <<>>

\* the winner of marketMap.get(conditionId), Null when the map has no market
\* for the id, the market no tokens or the tokens no winner
WinnerOf(map, conditionId) ==
    IF conditionId \in DOMAIN map /\ map[conditionId] # Null
          /\ "tokens" \in DOMAIN map[conditionId]
       THEN FindWinner(map[conditionId].tokens)
       ELSE Null

\* a variant that takes the first token of the market
FirstTokenOutcomes(ts, map) ==
    [i \in 1..Len(ts) |->
        IF NeedsOutcome(ts[i]) /\ ts[i].conditionId \in DOMAIN map
              /\ map[ts[i].conditionId] # Null
              /\ "tokens" \in DOMAIN map[ts[i].conditionId]
           THEN [ts[i] EXCEPT !.outcome = map[ts[i].conditionId].tokens[1].outcome]
           ELSE ts[i]]

\* the loop of enrichRedeemOutcomes over the trades
EnrichRedeemOutcomes(ts, map) ==
    [i \in 1..Len(ts) |->
        IF NeedsOutcome(ts[i]) /\ WinnerOf(map, ts[i].conditionId) # Null
           THEN [ts[i] EXCEPT !.outcome = WinnerOf(map, ts[i].conditionId).outcome]
           ELSE ts[i]]

\* [...new Set(redeems.map(r => r.conditionId))]
RedeemIds(ts) == {ts[i].conditionId : i \in {j \in 1..Len(ts) : NeedsOutcome(ts[j])}}

\* fetchTradingHistory returns the enriched trades, for which handleSubmit
\* calls generateTaxReport unless there is none
Enrich ==
    /\ historyPc = "enrich"
    /\ \E map \in [RedeemIds(allTrades) -> EnrichAnswers] :
          /\ answered' = map
          /\ trades' = EnrichRedeemOutcomes(allTrades, map)
    /\ given' = trades'
    /\ historyPc' = "returned"
    /\ pc' = IF Len(allTrades) = 0 THEN "none" ELSE "start"
    /\ UNCHANGED <<taxYear, normalized, idx, inventory, entries, warnings, matchLog,
                   openPositions, marketMap, lookups, report, calls, previous, other,
                   mergedPdf, pdfDoc>>
    /\ UNCHANGED <<unique, batchAt, inFlight, results, building, fetchPc, conditionIds>>
    /\ UNCHANGED <<offset, allTrades, requested, uiVars>>

NextRedeem == Enrich \/ Next

\* the history has been fetched and is about to be enriched
InitRedeem ==
    /\ allTrades \in TradeArrays(RedeemUniverse, MaxRedeemTrades)
    /\ historyPc = "enrich"
    /\ offset = 0
    /\ requested = <<>>
    /\ trades = <<>>
    /\ taxYear = 2024
    /\ pc = "fetching"
    /\ normalized = <<>>
    /\ idx = 1
    /\ inventory = <<>>
    /\ entries = <<>>
    /\ warnings = <<>>
    /\ matchLog = <<>>
    /\ openPositions = <<>>
    /\ marketMap = <<>>
    /\ lookups = <<>>
    /\ report = Null
    /\ given = trades
    /\ calls = 1
    /\ previous = {}
    /\ other = Null
    /\ mergedPdf = Null
    /\ pdfDoc = Null
    /\ BatchIdle
    /\ UiIdle

SpecRedeem == InitRedeem /\ [][NextRedeem]_vars

\* the REDEEM records that came without an outcome, by place
BareRedeems == {i \in 1..Len(allTrades) : NeedsOutcome(allTrades[i])}

\* the SELLs the loop has processed, by hash
Processed ==
    {normalized[p].transactionHash : p \in {q \in 1..Len(normalized) : q < idx \/ AfterLoop}}

\* C32 (REDEEM enrichment): a REDEEM without an outcome gets the outcome of
\* the token flagged as winner of its market and is redeemed against the
\* lots of that outcome; when the lookup fails or the market has no winner it
\* keeps the empty outcome and is dropped by the normalization: no entry
\* holds its proceeds and no warning is recorded for it
RedeemEnrichment ==
    historyPc = "returned" =>
        /\ Len(trades) = Len(allTrades)
        /\ \A i \in 1..Len(allTrades) \ BareRedeems : trades[i] = allTrades[i]
        /\ \A i \in BareRedeems :
              LET winner == WinnerOf(answered, allTrades[i].conditionId)
              IN  IF winner # Null
                  THEN /\ trades[i] = [allTrades[i] EXCEPT !.outcome = winner.outcome]
                       /\ pc \notin {"start", "none"} =>
                             \E p \in 1..Len(normalized) :
                                 /\ normalized[p].transactionHash = i
                                 /\ normalized[p].side = "SELL"
                       /\ i \in Processed =>
                             /\ \E e \in 1..Len(matchLog) : matchLog[e].sell = i
                             /\ \A e \in 1..Len(matchLog) :
                                   matchLog[e].sell = i =>
                                       /\ matchLog[e].key =
                                              PositionKey(allTrades[i].conditionId,
                                                          winner.outcome)
                                       /\ matchLog[e].kind = "lot" =>
                                             /\ allTrades[matchLog[e].lot].side = "BUY"
                                             /\ allTrades[matchLog[e].lot].outcome =
                                                    winner.outcome
                                             /\ allTrades[matchLog[e].lot].conditionId =
                                                    allTrades[i].conditionId
                  ELSE /\ trades[i] = allTrades[i]
                       /\ \A p \in 1..Len(normalized) : normalized[p].transactionHash # i
                       /\ \A e \in 1..Len(matchLog) : matchLog[e].sell # i
        /\ Len(warnings) = Cardinality(LogIndexes("oversell"))

\* a REDEEM without an outcome was redeemed against a lot of the winner of its
\* market, another whose lookup failed is in no entry, and there is no warning
RedeemEnrichmentReached ==
    /\ AfterLoop
    /\ warnings = <<>>
    /\ \E i, j \in BareRedeems :
          /\ WinnerOf(answered, allTrades[i].conditionId) # Null
          /\ \E e \in LogIndexes("lot") : matchLog[e].sell = i
          /\ answered[allTrades[j].conditionId] = Null
          /\ \A e \in 1..Len(matchLog) : matchLog[e].sell # j

-----------------------------------------------------------------------------
(* fetchTradingHistory: the paging loop *)

\* const limit = 500
limit == 500

\* if (offset > 50000) break
SafetyLimit == 50000

\* the records of a page: a trade, a redemption without its outcome and an
\* activity of another type
ActivityUniverse ==
    { Raw("TRADE", "BUY", Market1, Yes, Tok(10), Cents(1000), NoPrice, T0),
      Raw("REDEEM", "", Market1, <<>>, Tok(7), Cents(700), NoPrice, T0 + Day),
      Raw("SPLIT", "", Market1, <<>>, Tok(1), Cents(100), NoPrice, T0) }

\* an array of the response: the records the model spells out and, by their
\* number, further records of a type that is neither TRADE nor REDEEM
Batch(items, others) == [items |-> items, others |-> others]

EmptyBatch == Batch(<<>>, 0)

\* batch.length
BatchLength(batch) == Len(batch.items) + batch.others

\* the arrays a response can hold, with at most room spelled-out records:
\* empty, of one record, of two and of one less than the limit, and of the
\* limit
Batches(room) ==
    { b \in { Batch(items, others) :
                items \in UNION { [1..n -> ActivityUniverse] :
                                    n \in 0..(IF room > 0 THEN 1 ELSE 0) },
                others \in {0, limit - 2, limit - 1, limit} } :
        BatchLength(b) <= limit }

\* what response.json() gives: an array, an object that holds the array as
\* activities or as data, or an object with neither
Datas(room) ==
    { [isArray |-> TRUE, array |-> b] : b \in Batches(room) }
    \cup { [isArray |-> FALSE, activities |-> b] : b \in Batches(room) }
    \cup { [isArray |-> FALSE, data |-> b] : b \in Batches(room) }
    \cup { [isArray |-> FALSE] }

\* what the await of fetch gives: a rejection, a response that is not OK, or
\* an OK response with its data
Responses(room) ==
    { [rejected |-> TRUE, ok |-> FALSE], [rejected |-> FALSE, ok |-> FALSE] }
    \cup { [rejected |-> FALSE, ok |-> TRUE, data |-> d] : d \in Datas(room) }

\* Array.isArray(data) ? data : data.activities || data.data || []
BatchOf(data) ==
    IF data.isArray THEN data.array
    ELSE IF "activities" \in DOMAIN data THEN data.activities
    ELSE IF "data" \in DOMAIN data THEN data.data
    ELSE EmptyBatch

\* batch.filter(item => item.type === 'TRADE' || item.type === 'REDEEM')
FilterTrades(batch) ==
    SelectSeq(batch.items, LAMBDA item : item.type = "TRADE" \/ item.type = "REDEEM")

\* a variant for which no page is short
NeverShort(batch) == FALSE

\* batch.length < limit
ShortPage(batch) == BatchLength(batch) < limit

\* the entry of the log of requests: the offset asked for and what came back
Request(at, response) ==
    [offset |-> at,
     ok |-> response.ok,
     length |-> IF response.ok THEN BatchLength(BatchOf(response.data)) ELSE 0]

\* one turn of the while loop with its response
Page(response) ==
    /\ requested' = Append(requested, Request(offset, response))
    /\ IF ~response.ok
          THEN /\ historyPc' = "error"
               /\ UNCHANGED <<offset, allTrades>>
          ELSE /\ allTrades' = allTrades \o FilterTrades(BatchOf(response.data))
               /\ IF ShortPage(BatchOf(response.data))
                     THEN /\ historyPc' = "enrich"
                          /\ UNCHANGED offset
                     ELSE /\ offset' = offset + limit
                          /\ historyPc' = IF offset' > SafetyLimit THEN "enrich"
                                                                   ELSE "loop"

\* one turn of the while loop of fetchTradingHistory: the request of the page
\* at offset and the response to it
FetchPage ==
    /\ historyPc = "loop"
    /\ \E response \in Responses(MaxHistoryTrades - Len(allTrades)) : Page(response)
    /\ UNCHANGED <<reportVars, batchVars, uiVars>>

NextHistory == FetchPage \/ Enrich

\* fetchTradingHistory has been called and is about to request its first page
InitHistory ==
    /\ offset = 0
    /\ allTrades = <<>>
    /\ requested = <<>>
    /\ historyPc = "loop"
    /\ trades = <<>>
    /\ taxYear \in TaxYears
    /\ pc = "fetching"
    /\ normalized = <<>>
    /\ idx = 1
    /\ inventory = <<>>
    /\ entries = <<>>
    /\ warnings = <<>>
    /\ matchLog = <<>>
    /\ openPositions = <<>>
    /\ marketMap = <<>>
    /\ lookups = <<>>
    /\ report = Null
    /\ given = trades
    /\ calls = 1
    /\ previous = {}
    /\ other = Null
    /\ mergedPdf = Null
    /\ pdfDoc = Null
    /\ BatchIdle
    /\ UiIdle

SpecHistory == InitHistory /\ [][NextHistory]_vars

\* every awaited fetch and lookup settles
FairHistory == SpecHistory /\ WF_vars(FetchPage) /\ WF_vars(Enrich)

\* the requests are of the offsets 0, 500, 1000, ... in turn
OffsetsInTurn ==
    \A i \in 1..Len(requested) : requested[i].offset = (i - 1) * limit

\* every page before the last requested was OK and held the limit or more
OnlyAfterFullPages ==
    \A i \in 1..(Len(requested) - 1) :
        requested[i].ok /\ requested[i].length >= limit

LastRequest == requested[Len(requested)]

\* where the call is, told from its requests: looping after full pages only,
\* and below the safety limit; out of the loop after a short page or the
\* page that took the offset over the safety limit; failed after a response
\* that was not OK, with nothing returned
PagingState ==
    /\ historyPc = "loop" =>
          /\ offset = Len(requested) * limit
          /\ offset <= SafetyLimit
          /\ Len(requested) > 0 => LastRequest.ok /\ LastRequest.length >= limit
    /\ historyPc \in {"enrich", "returned"} =>
          /\ Len(requested) > 0
          /\ LastRequest.ok
          /\ \/ LastRequest.length < limit
             \/ LastRequest.offset + limit > SafetyLimit
    /\ historyPc = "error" =>
          /\ Len(requested) > 0
          /\ ~LastRequest.ok
          /\ trades = <<>>
          /\ pc = "fetching"
    /\ historyPc \in {"loop", "enrich", "returned", "error"}

\* a call that failed stays failed; a call that left the loop makes no
\* further request
EndedStaysEnded ==
    /\ historyPc = "error" => historyPc' = "error" /\ trades' = trades /\ pc' = pc
    /\ historyPc # "loop" => requested' = requested

\* C35: the paging loop of fetchTradingHistory ends for every sequence of
\* responses; it requests the offsets 0, 500, 1000, ... in turn, none skipped
\* or repeated, at most 101 of them; it goes on only after an OK page of 500
\* records or more and stops after the first page of fewer or once the offset
\* exceeds 50000; a response that is not OK ends the call with an error and
\* nothing is returned
PagingTerminates ==
    /\ [](OffsetsInTurn /\ OnlyAfterFullPages /\ PagingState
          /\ Len(requested) <= 101)
    /\ [][EndedStaysEnded]_vars
    /\ <>(historyPc \in {"returned", "error"})

\* the call returned its trades after 101 full pages
PagingTerminatesReached ==
    /\ historyPc = "returned"
    /\ Len(requested) = 101
    /\ LastRequest.offset = SafetyLimit
    /\ LastRequest.length >= limit
    /\ Len(trades) > 0

\* a response that was not OK after pages that held trades
PagingAborted ==
    /\ historyPc = "error"
    /\ Len(requested) > 1
    /\ Len(allTrades) > 0

-----------------------------------------------------------------------------
(* main.ts: handleSubmit and handleDownload *)

\* what the wallet field can hold: an address, the URL of a profile with an
\* address in it, or neither
WalletInputs ==
    { [address |-> TRUE, profile |-> FALSE],
      [address |-> FALSE, profile |-> TRUE],
      [address |-> FALSE, profile |-> FALSE] }

\* extractWalletAddress: the address in lower case, or null
ExtractWalletAddress(input) ==
    IF input.address \/ input.profile THEN [wallet |-> "0x"] ELSE Null

\* the trades fetchTradingHistory resolves with
UiUniverse ==
    { Raw("TRADE", "BUY", Market1, Yes, Tok(10), Cents(1000), NoPrice, T0),
      Raw("TRADE", "SELL", Market1, Yes, Tok(5), Cents(250), NoPrice, T0 + Day) }

Modes == {"summary", "detailed"}

\* a variant that keeps a report once it has one
KeepReport(held, result) == IF held = Null THEN result ELSE held

\* currentReport = await generateTaxReport(trades, taxYear)
AssignReport(held, result) == result

\* the submits whose generateTaxReport has completed
Completed == {i \in 1..Len(submits) : submits[i].pc = "done"}

\* handleSubmit up to its first await: the wallet is rejected, or the history
\* is requested
Submit ==
    /\ Len(submits) < MaxSubmits
    /\ \E input \in WalletInputs, year \in TaxYears :
          submits' = Append(submits,
              [pc |-> IF ExtractWalletAddress(input) = Null THEN "rejected"
                                                            ELSE "fetching",
               taxYear |-> year, trades |-> <<>>, report |-> Null, order |-> 0])
    /\ UNCHANGED <<currentReport, downloads, reportVars, batchVars, historyVars>>

\* the await of fetchTradingHistory of submit i settles: it throws, or gives
\* no trades, or gives trades and generateTaxReport is called
Fetched(i) ==
    /\ submits[i].pc = "fetching"
    /\ \/ submits' = [submits EXCEPT ![i].pc = "failed"]
       \/ \E ts \in TradeArrays(UiUniverse, MaxUiTrades) :
             submits' = [submits EXCEPT
                            ![i].pc = IF Len(ts) = 0 THEN "none" ELSE "computing",
                            ![i].trades = ts]
    /\ UNCHANGED <<currentReport, downloads, reportVars, batchVars, historyVars>>

\* generateTaxReport of submit i resolves with result
Complete(i, result) ==
    /\ currentReport' = AssignReport(currentReport, result)
    /\ submits' = [submits EXCEPT ![i].pc = "done", ![i].report = result,
                                  ![i].order = Cardinality(Completed) + 1]

\* the await of generateTaxReport of submit i settles and currentReport is
\* assigned
Computed(i) ==
    /\ submits[i].pc = "computing"
    /\ \E map \in MarketMaps(UniqueIds(PositionsFrom(NewMap, submits[i].trades))) :
          Complete(i, GenerateTaxReport(submits[i].trades, submits[i].taxYear, map))
    /\ UNCHANGED <<downloads, reportVars, batchVars, historyVars>>

\* handleDownload up to its await: it returns when there is no report, else
\* calls generateForm8949 with the report
Download ==
    /\ Len(downloads) < MaxDownloads
    /\ \E mode \in Modes, year \in TaxYears :
          downloads' = Append(downloads,
              IF currentReport = Null
                 THEN [pc |-> "returned", report |-> Null, mode |-> mode,
                       taxYear |-> year]
                 ELSE [pc |-> "generating", report |-> currentReport, mode |-> mode,
                       taxYear |-> year])
    /\ UNCHANGED <<currentReport, submits, reportVars, batchVars, historyVars>>

\* the await of generateForm8949 of download j settles: the files are
\* downloaded, or it throws
Generated(j) ==
    /\ downloads[j].pc = "generating"
    /\ \E end \in {"downloaded", "failed"} :
          downloads' = [downloads EXCEPT ![j].pc = end]
    /\ UNCHANGED <<currentReport, submits, reportVars, batchVars, historyVars>>

NextUi ==
    \/ Submit
    \/ \E i \in 1..Len(submits) : Fetched(i)
    \/ \E i \in 1..Len(submits) : Computed(i)
    \/ Download
    \/ \E j \in 1..Len(downloads) : Generated(j)

\* the page as loaded
InitUi ==
    /\ UiIdle
    /\ HistoryIdle
    /\ BatchIdle
    /\ trades = <<>>
    /\ taxYear = 2024
    /\ pc = "idle"
    /\ normalized = <<>>
    /\ idx = 1
    /\ inventory = <<>>
    /\ entries = <<>>
    /\ warnings = <<>>
    /\ matchLog = <<>>
    /\ openPositions = <<>>
    /\ marketMap = <<>>
    /\ lookups = <<>>
    /\ report = Null
    /\ given = trades
    /\ calls = 1
    /\ previous = {}
    /\ other = Null
    /\ mergedPdf = Null
    /\ pdfDoc = Null

SpecUi == InitUi /\ [][NextUi]_vars

\* currentReport is null until a submit has completed, and then the report of
\* the submit that completed last
ReportOfLastCompleted ==
    IF Completed = {} THEN currentReport = Null
    ELSE \E i \in Completed :
            /\ \A k \in Completed : submits[k].order <= submits[i].order
            /\ currentReport = submits[i].report
            /\ currentReport # Null

\* a step changes currentReport only as a submit's generateTaxReport completes,
\* to the report of that submit
ReplacedOnCompletion ==
    currentReport' # currentReport =>
        \E i \in 1..Len(submits) :
            /\ submits[i].pc = "computing"
            /\ submits'[i].pc = "done"
            /\ currentReport' = submits'[i].report

\* a submit that is rejected, finds no trades or throws leaves currentReport
FailedSubmitKeeps ==
    /\ Len(submits') > Len(submits) /\ submits'[Len(submits')].pc = "rejected"
          => currentReport' = currentReport
    /\ \A i \in 1..Len(submits) :
          submits[i].pc = "fetching" /\ submits'[i].pc \in {"none", "failed"}
              => currentReport' = currentReport

\* a download that generated files did so of the report held when it was
\* clicked, which was not null
DownloadsOfReports ==
    /\ \A j \in 1..Len(downloads) :
          downloads[j].pc # "returned" => downloads[j].report # Null
    /\ Len(downloads') > Len(downloads) =>
          /\ downloads'[Len(downloads')].report = currentReport
          /\ downloads'[Len(downloads')].pc = "returned" <=> currentReport = Null

\* C36: currentReport changes only as a submit's generateTaxReport completes;
\* a submit that is rejected, finds no trades or throws leaves it as it was;
\* handleDownload generates files only of a report that is not null; and
\* currentReport is the report of the submit that completed last, whichever
\* was submitted last
UiReportState ==
    /\ []ReportOfLastCompleted
    /\ [][ReplacedOnCompletion /\ FailedSubmitKeeps /\ DownloadsOfReports]_vars

\* two submits overlapped and the one submitted first completed last, with a
\* report other than that of the second; a download has generated the files
\* of the report held when it was clicked
UiReportStateReached ==
    /\ Len(submits) = 2
    /\ submits[1].pc = "done" /\ submits[2].pc = "done"
    /\ submits[1].order > submits[2].order
    /\ submits[1].report # submits[2].report
    /\ currentReport = submits[1].report
    /\ \E j \in 1..Len(downloads) :
          downloads[j].pc = "downloaded" /\ downloads[j].report = submits[2].report

====
